---- MODULE Spec2Model ----
(***************************************************************************)
(* BookStack MCP server: the tool/resource registry and the dispatcher of  *)
(* the four protocol operations (list-tools, call-tool, list-resources,    *)
(* read-resource), modelled from the compiled server module.               *)
(*                                                                         *)
(* Strings that the code inspects character by character (URI patterns,    *)
(* request URIs, JSON text) are sequences of one-character strings.        *)
(* Strings that the code only stores, compares or forwards (tool names,    *)
(* descriptions, handler identities) are TLA+ strings.                     *)
(***************************************************************************)
EXTENDS Integers, Sequences, FiniteSets, TLC

(***************************************************************************)
(* Bounds of the model.                                                    *)
(***************************************************************************)
\* longest list of tools the factories hand to setupTools
MaxToolRegs == 2
\* longest list of resources the factories hand to setupResources
MaxResRegs == 2
\* number of protocol requests one server instance receives
MaxReq == 2

\* most tools the server-info factory returns
MaxServerInfoTools == 2
\* number of POST /message requests the HTTP listener receives
MaxPosts == 2
\* number of resources the factories return when patterns are registered again
MaxRereg == 3

VARIABLES
    pc,            \* position of the instance: constructor phases, then serving
    toolFeed,      \* the tools the factories return, in forEach order
    toolIdx,       \* how many of them setupTools has registered
    resFeed,       \* the resources the factories return, in forEach order
    resIdx,        \* how many of them setupResources has registered
    tools,         \* this.tools    : Map name -> tool, in insertion order
    resources,     \* this.resources: Map uri pattern -> resource, in insertion order
    nextId,        \* number of requests received so far
    inflight,      \* requests suspended at `await handler(...)`
    lastResponse,  \* outcome of the request that completed last
    handlerFailures, \* number of requests whose handler rejected so far
    posts,         \* HTTP mode: the POST /message requests, in order of arrival
    instances,     \* HTTP mode: number of server instances constructed so far
    processConfig, \* the configuration ConfigManager.getInstance().getConfig() returns
    run,           \* the invocation of a catalog tool's handler that started last
    settled        \* handler promises that have settled, by request id

\* the state of one server instance
instanceVars == <<pc, toolFeed, toolIdx, resFeed, resIdx, tools, resources,
                  nextId, inflight, lastResponse, handlerFailures>>

\* the state of the HTTP listener
httpVars == <<posts, instances, processConfig>>

vars == <<pc, toolFeed, toolIdx, resFeed, resIdx, tools, resources,
          nextId, inflight, lastResponse, handlerFailures,
          posts, instances, processConfig, run, settled>>

(***************************************************************************)
(* Character strings.                                                      *)
(***************************************************************************)
Str_b      == <<"/", "b">>
Str_b_     == <<"/", "b", "/">>
Str_b5     == <<"/", "b", "/", "5">>
Str_b5c    == <<"/", "b", "/", "5", "/", "c">>
Str_b5c9   == <<"/", "b", "/", "5", "/", "c", "/", "9">>
Str_b5c9x  == <<"/", "b", "/", "5", "/", "c", "/", "9", "/", "x">>
Str_b__c9  == <<"/", "b", "/", "/", "c", "/", "9">>
Pat_bI     == <<"/", "b", "/", "{", "i", "}">>
Pat_bIcJ   == <<"/", "b", "/", "{", "i", "}", "/", "c", "/", "{", "j", "}">>
Pat_bDotI  == <<"/", "b", ".", "{", "i", "}">>

(***************************************************************************)
(* JavaScript Map: an insertion-ordered sequence of [key, value] entries   *)
(* with pairwise distinct keys.                                            *)
(***************************************************************************)
MapKeys(m) == [i \in 1..Len(m) |-> m[i].key]

MapValues(m) == [i \in 1..Len(m) |-> m[i].value]

MapHas(m, k) == \E i \in 1..Len(m) : m[i].key = k

MapIndex(m, k) == CHOOSE i \in 1..Len(m) : m[i].key = k

MapGet(m, k) == m[MapIndex(m, k)].value

\* a map whose set moves an existing key to the end, as delete followed by
\* set would
MapSet_moveToEnd(m, k, v) ==
    Append(SelectSeq(m, LAMBDA e : e.key # k), [key |-> k, value |-> v])

\* Map.prototype.set: an existing key keeps its position and gets the new
\* value; a new key is appended.
MapSet(m, k, v) ==
    IF MapHas(m, k)
    THEN [i \in 1..Len(m) |-> IF m[i].key = k THEN [key |-> k, value |-> v] ELSE m[i]]
    ELSE Append(m, [key |-> k, value |-> v])

MapSize(m) == Len(m)

(***************************************************************************)
(* URI matcher of the read-resource handler.                               *)
(*                                                                         *)
(* The alphabet of the model's patterns is letters, digits, "/", "{", "}"  *)
(* and ".": of the characters that RegExp reads as syntax only "." occurs. *)
(***************************************************************************)
\* String.prototype.includes with a one-character needle
Includes(s, c) == \E i \in 1..Len(s) : s[i] = c

\* index of the first "}" at or after position i, 0 when there is none
RECURSIVE NextClose(_, _)
NextClose(s, i) ==
    IF i > Len(s) THEN 0
    ELSE IF s[i] = "}" THEN i
    ELSE NextClose(s, i + 1)

\* one character of the pattern read by RegExp: "." is the wildcard, every
\* other character of the alphabet stands for itself
RegexAtom(c) == IF c = "." THEN [t |-> "any"] ELSE [t |-> "lit", c |-> c]

\* pattern.replace(/\{[^}]+\}/g, '([^/]+)') followed by new RegExp('^...$'):
\* the sequence of atoms of the compiled expression. A "{" opens a placeholder
\* when at least one character other than "}" separates it from the next "}".
RECURSIVE CompileFrom(_, _)
CompileFrom(pattern, i) ==
    IF i > Len(pattern) THEN <<>>
    ELSE LET j == NextClose(pattern, i + 1)
         IN  IF pattern[i] = "{" /\ j >= i + 2
             THEN <<[t |-> "seg"]>> \o CompileFrom(pattern, j + 1)
             ELSE <<RegexAtom(pattern[i])>> \o CompileFrom(pattern, i + 1)

Compile(pattern) == CompileFrom(pattern, 1)

\* characters "." does not match
LineTerminators == {"\n", "\r"}

\* positions of uri the expression can be at after one more atom, from the
\* positions in P (0 is the position before the first character)
AtomStep(atom, uri, P) ==
    IF atom.t = "lit"
    THEN {p + 1 : p \in {q \in P : q < Len(uri) /\ uri[q + 1] = atom.c}}
    ELSE IF atom.t = "any"
    THEN {p + 1 : p \in {q \in P : q < Len(uri) /\ uri[q + 1] \notin LineTerminators}}
    ELSE \* "seg": ([^/]+)
         {e \in 1..Len(uri) :
             \E p \in P : p < e /\ \A k \in (p + 1)..e : uri[k] # "/"}

RECURSIVE RunAtoms(_, _, _, _)
RunAtoms(atoms, k, uri, P) ==
    IF k > Len(atoms) THEN P
    ELSE RunAtoms(atoms, k + 1, uri, AtomStep(atoms[k], uri, P))

\* regex.test(uri) for the anchored expression ^atoms$
RegexTest(atoms, uri) == Len(uri) \in RunAtoms(atoms, 1, uri, {0})

\* a compiled expression without the closing anchor: ^atoms
TemplateMatches_noEndAnchor(pattern, uri) == RunAtoms(Compile(pattern), 1, uri, {0}) # {}

\* the dynamic-pattern branch of the scan
TemplateMatches(pattern, uri) == RegexTest(Compile(pattern), uri)

\* an exact branch that accepts every URI the pattern is a prefix of
ExactMatches_prefix(pattern, uri) ==
    /\ Len(pattern) <= Len(uri)
    /\ SubSeq(uri, 1, Len(pattern)) = pattern

\* the exact branch of the scan: pattern === uri
ExactMatches(pattern, uri) == pattern = uri

\* one iteration of the scan: does this pattern select the request URI
PatternMatches(pattern, uri) ==
    IF Includes(pattern, "{")
    THEN TemplateMatches(pattern, uri)
    ELSE ExactMatches(pattern, uri)

\* the for..of loop over this.resources.entries(): index of the entry the
\* loop breaks at, 0 when the loop runs off the end
RECURSIVE ScanFrom(_, _, _)
ScanFrom(m, uri, i) ==
    IF i > Len(m) THEN 0
    ELSE IF PatternMatches(m[i].key, uri) THEN i
    ELSE ScanFrom(m, uri, i + 1)

\* index of the first exact pattern equal to uri, 0 when there is none
RECURSIVE ExactScanFrom(_, _, _)
ExactScanFrom(m, uri, i) ==
    IF i > Len(m) THEN 0
    ELSE IF ~Includes(m[i].key, "{") /\ m[i].key = uri THEN i
    ELSE ExactScanFrom(m, uri, i + 1)

\* a two-phase scan: the exact patterns first, then the whole list
FindMatch_exactFirst(m, uri) ==
    IF ExactScanFrom(m, uri, 1) # 0 THEN ExactScanFrom(m, uri, 1) ELSE ScanFrom(m, uri, 1)

\* a scan that assigns matchedResource before it tests the pattern, and so
\* keeps the last entry when nothing matched
FindMatch_keepsLast(m, uri) ==
    IF ScanFrom(m, uri, 1) = 0 THEN Len(m) ELSE ScanFrom(m, uri, 1)

FindMatch(m, uri) == ScanFrom(m, uri, 1)

(***************************************************************************)
(* JSON values: what a handler resolves with.                              *)
(***************************************************************************)
JNull == [t |-> "null"]

JBool(b) == [t |-> "bool", b |-> b]

JNum(n) == [t |-> "num", n |-> n]

JStr(s) == [t |-> "str", s |-> s]

JArr(items) == [t |-> "arr", items |-> items]

\* an object: its own property keys in insertion order, and their values
JObj(keys, vals) == [t |-> "obj", keys |-> keys, vals |-> vals]

(***************************************************************************)
(* JSON.stringify(value, null, 2)                                          *)
(***************************************************************************)
Digit(d) == <<"0", "1", "2", "3", "4", "5", "6", "7", "8", "9">>[d + 1]

\* Number::toString of a natural number
RECURSIVE NatChars(_)
NatChars(n) == IF n < 10 THEN <<Digit(n)>> ELSE NatChars(n \div 10) \o <<Digit(n % 10)>>

RECURSIVE Spaces(_)
Spaces(n) == IF n = 0 THEN <<>> ELSE <<" ">> \o Spaces(n - 1)

\* QuoteJSONString: the escapes of the characters of the model's alphabet
EscapeChar(c) ==
    IF c = "\"" THEN <<"\\", "\"">>
    ELSE IF c = "\\" THEN <<"\\", "\\">>
    ELSE IF c = "\n" THEN <<"\\", "n">>
    ELSE <<c>>

RECURSIVE EscapeFrom(_, _)
EscapeFrom(s, i) ==
    IF i > Len(s) THEN <<>> ELSE EscapeChar(s[i]) \o EscapeFrom(s, i + 1)

QuoteJSONString(s) == <<"\"">> \o EscapeFrom(s, 1) \o <<"\"">>

\* SerializeJSONProperty / SerializeJSONArray / SerializeJSONObject with the
\* gap of `gap` spaces; `indent` is the current indentation
RECURSIVE Serialize(_, _, _)
RECURSIVE SerializeItems(_, _, _, _)
RECURSIVE SerializeMembers(_, _, _, _, _)
Serialize(v, indent, gap) ==
    IF v.t = "null" THEN <<"n", "u", "l", "l">>
    ELSE IF v.t = "bool"
    THEN (IF v.b THEN <<"t", "r", "u", "e">> ELSE <<"f", "a", "l", "s", "e">>)
    ELSE IF v.t = "num" THEN NatChars(v.n)
    ELSE IF v.t = "str" THEN QuoteJSONString(v.s)
    ELSE IF v.t = "arr"
    THEN IF Len(v.items) = 0 THEN <<"[", "]">>
         ELSE <<"[", "\n">> \o Spaces(indent + gap)
              \o SerializeItems(v.items, 1, indent + gap, gap)
              \o <<"\n">> \o Spaces(indent) \o <<"]">>
    ELSE IF Len(v.keys) = 0 THEN <<"{", "}">>
         ELSE <<"{", "\n">> \o Spaces(indent + gap)
              \o SerializeMembers(v.keys, v.vals, 1, indent + gap, gap)
              \o <<"\n">> \o Spaces(indent) \o <<"}">>

SerializeItems(items, i, indent, gap) ==
    Serialize(items[i], indent, gap)
    \o (IF i = Len(items) THEN <<>>
        ELSE <<",", "\n">> \o Spaces(indent) \o SerializeItems(items, i + 1, indent, gap))

SerializeMembers(keys, vals, i, indent, gap) ==
    QuoteJSONString(keys[i]) \o <<":", " ">> \o Serialize(vals[i], indent, gap)
    \o (IF i = Len(keys) THEN <<>>
        ELSE <<",", "\n">> \o Spaces(indent)
             \o SerializeMembers(keys, vals, i + 1, indent, gap))

\* the indentation the dispatcher asks for
JsonIndent == 2

\* JSON.stringify(result, null, 2)
Stringify(v) == Serialize(v, 0, JsonIndent)

(***************************************************************************)
(* JSON.parse, as the reader of a content block applies it. A parse gives  *)
(* [ok, val, pos]: pos is the index of the first character not yet read.   *)
(***************************************************************************)
ParseFail == [ok |-> FALSE, val |-> JNull, pos |-> 0]

ParseOk(v, pos) == [ok |-> TRUE, val |-> v, pos |-> pos]

JsonWhitespace == {" ", "\n", "\r", "\t"}

DigitChars == {"0", "1", "2", "3", "4", "5", "6", "7", "8", "9"}

DigitValue(c) == CHOOSE d \in 0..9 : Digit(d) = c

RECURSIVE SkipWs(_, _)
SkipWs(s, i) == IF i <= Len(s) /\ s[i] \in JsonWhitespace THEN SkipWs(s, i + 1) ELSE i

\* does the literal word w start at position i of s
StartsAt(s, i, w) ==
    /\ i + Len(w) - 1 <= Len(s)
    /\ \A k \in 1..Len(w) : s[i + k - 1] = w[k]

\* digits from position i on, acc is the value read so far
RECURSIVE ParseDigits(_, _, _)
ParseDigits(s, i, acc) ==
    IF i <= Len(s) /\ s[i] \in DigitChars
    THEN ParseDigits(s, i + 1, acc * 10 + DigitValue(s[i]))
    ELSE ParseOk(JNum(acc), i)

\* characters of a string from position i on (after the opening quote); the
\* result's val is a JStr
RECURSIVE ParseChars(_, _, _)
ParseChars(s, i, acc) ==
    IF i > Len(s) THEN ParseFail
    ELSE IF s[i] = "\"" THEN ParseOk(JStr(acc), i + 1)
    ELSE IF s[i] = "\n" THEN ParseFail
    ELSE IF s[i] = "\\"
    THEN IF i + 1 > Len(s) THEN ParseFail
         ELSE IF s[i + 1] = "\"" THEN ParseChars(s, i + 2, Append(acc, "\""))
         ELSE IF s[i + 1] = "\\" THEN ParseChars(s, i + 2, Append(acc, "\\"))
         ELSE IF s[i + 1] = "n" THEN ParseChars(s, i + 2, Append(acc, "\n"))
         ELSE ParseFail
    ELSE ParseChars(s, i + 1, Append(acc, s[i]))

RECURSIVE ParseValue(_, _)
RECURSIVE ParseItems(_, _, _)
RECURSIVE ParseMembers(_, _, _, _)
ParseValue(s, i0) ==
    LET i == SkipWs(s, i0)
    IN  IF i > Len(s) THEN ParseFail
        ELSE IF StartsAt(s, i, <<"n", "u", "l", "l">>) THEN ParseOk(JNull, i + 4)
        ELSE IF StartsAt(s, i, <<"t", "r", "u", "e">>) THEN ParseOk(JBool(TRUE), i + 4)
        ELSE IF StartsAt(s, i, <<"f", "a", "l", "s", "e">>) THEN ParseOk(JBool(FALSE), i + 5)
        ELSE IF s[i] \in DigitChars THEN ParseDigits(s, i, 0)
        ELSE IF s[i] = "\"" THEN ParseChars(s, i + 1, <<>>)
        ELSE IF s[i] = "["
        THEN LET j == SkipWs(s, i + 1)
             IN  IF j <= Len(s) /\ s[j] = "]" THEN ParseOk(JArr(<<>>), j + 1)
                 ELSE ParseItems(s, j, <<>>)
        ELSE IF s[i] = "{"
        THEN LET j == SkipWs(s, i + 1)
             IN  IF j <= Len(s) /\ s[j] = "}" THEN ParseOk(JObj(<<>>, <<>>), j + 1)
                 ELSE ParseMembers(s, j, <<>>, <<>>)
        ELSE ParseFail

\* the elements of an array from position i on, acc the elements read so far
ParseItems(s, i, acc) ==
    LET r == ParseValue(s, i)
        j == SkipWs(s, r.pos)
    IN  IF ~r.ok \/ j > Len(s) THEN ParseFail
        ELSE IF s[j] = "]" THEN ParseOk(JArr(Append(acc, r.val)), j + 1)
        ELSE IF s[j] = "," THEN ParseItems(s, j + 1, Append(acc, r.val))
        ELSE ParseFail

\* the members of an object from position i on
ParseMembers(s, i, keys, vals) ==
    LET i1 == SkipWs(s, i)
        k  == IF i1 <= Len(s) /\ s[i1] = "\"" THEN ParseChars(s, i1 + 1, <<>>) ELSE ParseFail
        c  == SkipWs(s, k.pos)
        v  == IF k.ok /\ c <= Len(s) /\ s[c] = ":" THEN ParseValue(s, c + 1) ELSE ParseFail
        j  == SkipWs(s, v.pos)
    IN  IF ~v.ok \/ j > Len(s) THEN ParseFail
        ELSE IF s[j] = "}"
        THEN ParseOk(JObj(Append(keys, k.val.s), Append(vals, v.val)), j + 1)
        ELSE IF s[j] = ","
        THEN ParseMembers(s, j + 1, Append(keys, k.val.s), Append(vals, v.val))
        ELSE ParseFail

\* JSON.parse(text): the whole text is one value
JsonParse(text) ==
    LET r == ParseValue(text, 1)
    IN  IF r.ok /\ SkipWs(text, r.pos) = Len(text) + 1 THEN r ELSE ParseFail

(***************************************************************************)
(* Catalog entries the factories can return, and what callers can send.    *)
(***************************************************************************)
\* a tool as the factories build it (createXxxTool)
Tool(name, description, inputSchema, handler) ==
    [name |-> name, description |-> description, category |-> "books",
     inputSchema |-> inputSchema, examples |-> "examples",
     usage_patterns |-> "usage", related_tools |-> "related",
     error_codes |-> "codes", handler |-> handler]

ToolA  == Tool("t1", "d1", "s1", "h1")
\* a second tool with the name of ToolA
ToolA2 == Tool("t1", "d2", "s2", "h2")
ToolB  == Tool("t2", "d3", "s3", "h3")

ToolPool == {ToolA, ToolA2, ToolB}

\* names a call-tool request can carry; "t9" is never registered
RequestNames == {"t1", "t2", "t9"}

\* a resource as the factories build it
Resource(uri, name, mimeType, handler) ==
    [uri |-> uri, name |-> name, description |-> "d", mimeType |-> mimeType,
     handler |-> handler]

ResBookById   == Resource(Pat_bI, "book", "application/json", "r1")
ResBookFive   == Resource(Str_b5, "five", "text/plain", "r2")
ResChapter    == Resource(Pat_bIcJ, "chapter", "application/json", "r3")
\* a templated pattern whose literal part holds a "."
ResDotted     == Resource(Pat_bDotI, "dotted", "text/markdown", "r4")
\* a second resource with the pattern of ResBookById
ResBookById2  == Resource(Pat_bI, "book2", "text/html", "r5")

ResourcePool == {ResBookById, ResBookFive, ResChapter, ResDotted, ResBookById2}

\* URIs a read-resource request can carry
RequestUris == {Str_b, Str_b_, Str_b5, Str_b5c, Str_b5c9, Str_b5c9x, Str_b__c9}

\* request.params.arguments when the caller supplies none
Undefined == [t |-> "undefined"]

ArgsGiven == JObj(<< <<"i", "d">> >>, <<JNum(5)>>)

RequestArgs == {Undefined, ArgsGiven}

\* values a handler can resolve with
ValObject == JObj(<< <<"a">>, <<"b">> >>, <<JNum(1), JArr(<<JNum(2), JNum(3)>>)>>)
ValString == JStr(<<"h", "\"", "i">>)
ValBool   == JBool(TRUE)
ValArray  == JArr(<<JStr(<<"x">>), JObj(<<>>, <<>>)>>)

ResultPool == {ValObject, ValString, ValBool, ValArray}

\* errors a handler can reject with: the validator's and the API client's
RawKinds == {"validation", "notfound", "unauthorized", "upstream"}

Raised(kind) == [translated |-> FALSE, kind |-> kind, text |-> "failed"]

RaisedPool == {Raised(k) : k \in RawKinds}

\* all sequences over S of length at most n
SeqsUpTo(S, n) == UNION {[1..k -> S] : k \in 0..n}

\* what the factories of the default catalog return
DefaultToolFeed == <<ToolA, ToolB>>

DefaultResFeed == <<ResBookById, ResBookFive>>

(***************************************************************************)
(* Collaborators.                                                          *)
(***************************************************************************)
\* ErrorHandler.handleError: the protocol-level error of a raw failure
HandleError(err) ==
    [translated |-> TRUE,
     kind |-> CASE err.kind = "validation"   -> "ValidationError"
               [] err.kind = "notfound"     -> "NotFound"
               [] err.kind = "unauthorized" -> "Unauthorized"
               [] OTHER                     -> "UpstreamError",
     text |-> err.text]

(***************************************************************************)
(* The constructor: setupTools, setupResources, setupHandlers.             *)
(***************************************************************************)
\* a registry that keeps the entry registered first under a name
ToolsAfterSet_keepFirst(m, tool) ==
    IF MapHas(m, tool.name) THEN m ELSE Append(m, [key |-> tool.name, value |-> tool])

\* this.tools.set(tool.name, tool)
ToolsAfterSet(m, tool) == MapSet(m, tool.name, tool)

\* this.resources.set(resource.uri, resource)
ResourcesAfterSet(m, resource) == MapSet(m, resource.uri, resource)

\* the configuration of the process: what the configuration loader read
BaseConfig ==
    [bookstack |-> [baseUrl |-> "base-url", apiToken |-> "base-token",
                    timeout |-> "base-timeout"],
     server |-> [name |-> "server-name", version |-> "server-version"]]

NoResponse == [op |-> "none", id |-> 0, ok |-> TRUE, trace |-> <<>>]

\* no handler of the catalog has been invoked yet
NoRun ==
    [tool |-> "", params |-> [t |-> "undefined"], events |-> <<>>,
     stage |-> "idle", result |-> "none"]

InitWith(tf, rf) ==
    /\ pc = "setupTools"
    /\ toolFeed = tf
    /\ toolIdx = 0
    /\ resFeed = rf
    /\ resIdx = 0
    /\ tools = <<>>
    /\ resources = <<>>
    /\ nextId = 0
    /\ inflight = {}
    /\ lastResponse = NoResponse
    /\ handlerFailures = 0
    /\ posts = <<>>
    /\ instances = 0
    /\ processConfig = BaseConfig
    /\ run = NoRun
    /\ settled = {}

\* one iteration of the forEach of setupTools
RegisterTool ==
    /\ pc = "setupTools"
    /\ toolIdx < Len(toolFeed)
    /\ tools' = ToolsAfterSet(tools, toolFeed[toolIdx + 1])
    /\ toolIdx' = toolIdx + 1
    /\ UNCHANGED <<pc, toolFeed, resFeed, resIdx, resources, nextId, inflight,
                   lastResponse, handlerFailures>>
    /\ UNCHANGED <<httpVars, run, settled>>

\* the end of setupTools
FinishSetupTools ==
    /\ pc = "setupTools"
    /\ toolIdx = Len(toolFeed)
    /\ pc' = "setupResources"
    /\ UNCHANGED <<toolFeed, toolIdx, resFeed, resIdx, tools, resources, nextId,
                   inflight, lastResponse, handlerFailures>>
    /\ UNCHANGED <<httpVars, run, settled>>

\* one iteration of the forEach of setupResources
RegisterResource ==
    /\ pc = "setupResources"
    /\ resIdx < Len(resFeed)
    /\ resources' = ResourcesAfterSet(resources, resFeed[resIdx + 1])
    /\ resIdx' = resIdx + 1
    /\ UNCHANGED <<pc, toolFeed, toolIdx, resFeed, tools, nextId, inflight,
                   lastResponse, handlerFailures>>
    /\ UNCHANGED <<httpVars, run, settled>>

\* the end of setupResources, setupHandlers and the end of the constructor
FinishSetupResources ==
    /\ pc = "setupResources"
    /\ resIdx = Len(resFeed)
    /\ pc' = "serving"
    /\ UNCHANGED <<toolFeed, toolIdx, resFeed, resIdx, tools, resources, nextId,
                   inflight, lastResponse, handlerFailures>>
    /\ UNCHANGED <<httpVars, run, settled>>

(***************************************************************************)
(* The dispatcher: the four request handlers of setupHandlers. A request   *)
(* that reaches `await handler(...)` is suspended in `inflight` until the  *)
(* handler settles; its trace lists, in order, the log calls, the handler  *)
(* invocation and the translation made on its behalf.                      *)
(***************************************************************************)
EmptyObject == JObj(<<>>, <<>>)

\* a listing that hands out the registry's entries themselves
ListToolsResult_wholeEntries(m) == MapValues(m)

\* Array.from(this.tools.values()).map(tool => ({name, description, inputSchema}))
ListToolsResult(m) ==
    [i \in 1..Len(m) |->
        [name |-> m[i].value.name,
         description |-> m[i].value.description,
         inputSchema |-> m[i].value.inputSchema]]

\* the list-tools handler
ListTools ==
    /\ pc = "serving"
    /\ nextId < MaxReq
    /\ nextId' = nextId + 1
    /\ lastResponse' = [op |-> "listTools", id |-> nextId + 1, ok |-> TRUE,
                        tools |-> ListToolsResult(tools),
                        trace |-> <<"debug:Listed tools">>]
    /\ UNCHANGED <<pc, toolFeed, toolIdx, resFeed, resIdx, tools, resources,
                   inflight, handlerFailures>>
    /\ UNCHANGED <<httpVars, run, settled>>

\* const tool = this.tools.get(name); if (!tool) ...
ToolLookup(m, name) ==
    IF MapHas(m, name)
    THEN [found |-> TRUE, tool |-> MapGet(m, name)]
    ELSE [found |-> FALSE]

\* an error whose message does not name the tool
UnknownToolError_noName(name) ==
    [translated |-> FALSE, kind |-> "Error", text |-> "Unknown tool", name |-> ""]

\* new Error(`Unknown tool: ${name}`)
UnknownToolError(name) ==
    [translated |-> FALSE, kind |-> "Error", text |-> "Unknown tool: ", name |-> name]

\* an invocation that hands the handler the arguments as they arrived
ArgsOrEmpty_asGiven(args) == args

\* args || {}
ArgsOrEmpty(args) == IF args = Undefined THEN EmptyObject ELSE args

\* the call-tool handler up to `await tool.handler(args || {})`
CallToolStart(name, args) ==
    /\ pc = "serving"
    /\ nextId < MaxReq
    /\ nextId' = nextId + 1
    /\ LET look == ToolLookup(tools, name)
       IN  IF ~look.found
           THEN /\ lastResponse' =
                       [op |-> "callTool", id |-> nextId + 1, name |-> name,
                        args |-> args, ok |-> FALSE, handler |-> "",
                        error |-> UnknownToolError(name),
                        trace |-> <<"info:Tool called">>]
                /\ UNCHANGED <<inflight, handlerFailures>>
           ELSE /\ inflight' = inflight \cup
                       {[op |-> "callTool", id |-> nextId + 1, name |-> name,
                         args |-> args, handler |-> look.tool.handler,
                         passedArgs |-> ArgsOrEmpty(args),
                         failuresBefore |-> handlerFailures,
                         trace |-> <<"info:Tool called", "invoke">>]}
                /\ UNCHANGED <<lastResponse, handlerFailures>>
    /\ UNCHANGED <<pc, toolFeed, toolIdx, resFeed, resIdx, tools, resources>>
    /\ UNCHANGED <<httpVars, run, settled>>

\* a content block that passes a string result through, as read-resource does
ToolSuccessContent_stringVerbatim(result) ==
    <<[type |-> "text",
       text |-> IF result.t = "str" THEN result.s ELSE Stringify(result)]>>

\* { content: [{ type: 'text', text: JSON.stringify(result, null, 2) }] }
ToolSuccessContent(result) == <<[type |-> "text", text |-> Stringify(result)]>>

\* the call-tool handler after the handler resolved with `result`
CallToolResolve(r, result) ==
    /\ r \in inflight
    /\ r.op = "callTool"
    /\ inflight' = inflight \ {r}
    /\ lastResponse' = [op |-> "callTool", id |-> r.id, name |-> r.name,
                        args |-> r.args, ok |-> TRUE, handler |-> r.handler,
                        passedArgs |-> r.passedArgs, result |-> result,
                        failuresBefore |-> r.failuresBefore,
                        content |-> ToolSuccessContent(result),
                        trace |-> r.trace \o <<"info:completed">>]
    /\ UNCHANGED <<pc, toolFeed, toolIdx, resFeed, resIdx, tools, resources,
                   nextId, handlerFailures>>
    /\ UNCHANGED <<httpVars, run, settled>>

\* a catch block that logs and rethrows the failure as it is
CatchHandlerFailure_rethrow(err) == [trace |-> <<"error:failed">>, error |-> err]

\* a catch block that lets a validation failure propagate as it was raised
\* and translates only the other failures
CatchHandlerFailure_validationRaw(err) ==
    IF err.kind = "validation"
    THEN [trace |-> <<"error:failed">>, error |-> err]
    ELSE [trace |-> <<"error:failed", "handleError">>, error |-> HandleError(err)]

\* the catch block of both handlers: logger.error(..., {error: error.message,
\* stack: error.stack}); throw this.errorHandler.handleError(error)
CatchHandlerFailure(err) ==
    [trace |-> <<"error:failed", "handleError">>, error |-> HandleError(err)]

\* a catch block that invokes the handler a second time before it gives up
CallToolReject_retryOnce(r, err) ==
    /\ r \in inflight
    /\ r.op = "callTool"
    /\ IF Len(r.trace) = 2
       THEN /\ inflight' = (inflight \ {r}) \cup
                              {[r EXCEPT !.trace = @ \o <<"error:failed", "invoke">>]}
            /\ UNCHANGED lastResponse
       ELSE /\ inflight' = inflight \ {r}
            /\ LET caught == CatchHandlerFailure(err)
               IN  lastResponse' =
                      [op |-> "callTool", id |-> r.id, name |-> r.name,
                       args |-> r.args, ok |-> FALSE, handler |-> r.handler,
                       passedArgs |-> r.passedArgs, raised |-> err,
                       error |-> caught.error,
                       trace |-> r.trace \o caught.trace]
    /\ handlerFailures' = handlerFailures + 1
    /\ UNCHANGED <<pc, toolFeed, toolIdx, resFeed, resIdx, tools, resources, nextId>>
    /\ UNCHANGED <<httpVars, run, settled>>

\* a failure that takes the other suspended requests down with it
CallToolReject_abortsOthers(r, err) ==
    /\ r \in inflight
    /\ r.op = "callTool"
    /\ inflight' = {}
    /\ LET caught == CatchHandlerFailure(err)
       IN  lastResponse' = [op |-> "callTool", id |-> r.id, name |-> r.name,
                            args |-> r.args, ok |-> FALSE, handler |-> r.handler,
                            passedArgs |-> r.passedArgs, raised |-> err,
                            error |-> caught.error,
                            trace |-> r.trace \o caught.trace]
    /\ handlerFailures' = handlerFailures + 1
    /\ UNCHANGED <<pc, toolFeed, toolIdx, resFeed, resIdx, tools, resources, nextId>>
    /\ UNCHANGED <<httpVars, run, settled>>

\* the call-tool handler after the handler rejected with `err`
CallToolReject(r, err) ==
    /\ r \in inflight
    /\ r.op = "callTool"
    /\ inflight' = inflight \ {r}
    /\ LET caught == CatchHandlerFailure(err)
       IN  lastResponse' = [op |-> "callTool", id |-> r.id, name |-> r.name,
                            args |-> r.args, ok |-> FALSE, handler |-> r.handler,
                            passedArgs |-> r.passedArgs, raised |-> err,
                            error |-> caught.error,
                            trace |-> r.trace \o caught.trace]
    /\ handlerFailures' = handlerFailures + 1
    /\ UNCHANGED <<pc, toolFeed, toolIdx, resFeed, resIdx, tools, resources, nextId>>
    /\ UNCHANGED <<httpVars, run, settled>>

\* Array.from(this.resources.values()).map(resource => ({uri, name, description, mimeType}))
ListResourcesResult(m) ==
    [i \in 1..Len(m) |->
        [uri |-> m[i].value.uri,
         name |-> m[i].value.name,
         description |-> m[i].value.description,
         mimeType |-> m[i].value.mimeType]]

\* the list-resources handler
ListResources ==
    /\ pc = "serving"
    /\ nextId < MaxReq
    /\ nextId' = nextId + 1
    /\ lastResponse' = [op |-> "listResources", id |-> nextId + 1, ok |-> TRUE,
                        resources |-> ListResourcesResult(resources),
                        trace |-> <<"debug:Listed resources">>]
    /\ UNCHANGED <<pc, toolFeed, toolIdx, resFeed, resIdx, tools, resources,
                   inflight, handlerFailures>>
    /\ UNCHANGED <<httpVars, run, settled>>

\* new Error(`Unknown resource: ${uri}`)
UnknownResourceError(uri) ==
    [translated |-> FALSE, kind |-> "Error", text |-> "Unknown resource: ", uri |-> uri]

\* an invocation that hands the handler the pattern it was registered under
ResourceHandlerArgs_pattern(uri, pattern) == <<pattern>>

\* matchedResource.handler(uri): the argument list of the invocation
ResourceHandlerArgs(uri, pattern) == <<uri>>

\* the read-resource handler up to `await matchedResource.handler(uri)`
ReadResourceStart(uri) ==
    /\ pc = "serving"
    /\ nextId < MaxReq
    /\ nextId' = nextId + 1
    /\ LET idx == FindMatch(resources, uri)
       IN  IF idx = 0
           THEN /\ lastResponse' =
                       [op |-> "readResource", id |-> nextId + 1, uri |-> uri,
                        ok |-> FALSE, handler |-> "", matched |-> 0,
                        error |-> UnknownResourceError(uri),
                        trace |-> <<"info:Resource requested">>]
                /\ UNCHANGED <<inflight, handlerFailures>>
           ELSE /\ inflight' = inflight \cup
                       {[op |-> "readResource", id |-> nextId + 1, uri |-> uri,
                         matched |-> idx,
                         handler |-> resources[idx].value.handler,
                         mimeType |-> resources[idx].value.mimeType,
                         passedUri |-> ResourceHandlerArgs(uri, resources[idx].key),
                         failuresBefore |-> handlerFailures,
                         trace |-> <<"info:Resource requested", "invoke">>]}
                /\ UNCHANGED <<lastResponse, handlerFailures>>
    /\ UNCHANGED <<pc, toolFeed, toolIdx, resFeed, resIdx, tools, resources>>
    /\ UNCHANGED <<httpVars, run, settled>>

\* a text that is always the JSON serialization
ResourceText_alwaysJson(result) == Stringify(result)

\* typeof result === 'string' ? result : JSON.stringify(result, null, 2)
ResourceText(result) == IF result.t = "str" THEN result.s ELSE Stringify(result)

\* { contents: [{ uri, mimeType: matchedResource.mimeType, text }] }
ResourceContents(uri, mimeType, result) ==
    <<[uri |-> uri, mimeType |-> mimeType, text |-> ResourceText(result)]>>

\* the read-resource handler after the handler resolved with `result`
ReadResourceResolve(r, result) ==
    /\ r \in inflight
    /\ r.op = "readResource"
    /\ inflight' = inflight \ {r}
    /\ lastResponse' = [op |-> "readResource", id |-> r.id, uri |-> r.uri,
                        ok |-> TRUE, handler |-> r.handler, matched |-> r.matched,
                        passedUri |-> r.passedUri, result |-> result,
                        failuresBefore |-> r.failuresBefore,
                        contents |-> ResourceContents(r.uri, r.mimeType, result),
                        trace |-> r.trace \o <<"info:read">>]
    /\ UNCHANGED <<pc, toolFeed, toolIdx, resFeed, resIdx, tools, resources,
                   nextId, handlerFailures>>
    /\ UNCHANGED <<httpVars, run, settled>>

\* the read-resource handler after the handler rejected with `err`
ReadResourceReject(r, err) ==
    /\ r \in inflight
    /\ r.op = "readResource"
    /\ inflight' = inflight \ {r}
    /\ LET caught == CatchHandlerFailure(err)
       IN  lastResponse' = [op |-> "readResource", id |-> r.id, uri |-> r.uri,
                            ok |-> FALSE, handler |-> r.handler,
                            matched |-> r.matched, passedUri |-> r.passedUri,
                            raised |-> err, error |-> caught.error,
                            trace |-> r.trace \o caught.trace]
    /\ handlerFailures' = handlerFailures + 1
    /\ UNCHANGED <<pc, toolFeed, toolIdx, resFeed, resIdx, tools, resources, nextId>>
    /\ UNCHANGED <<httpVars, run, settled>>

(***************************************************************************)
(* getHealth. The method is called on the instance, not through the        *)
(* transport; it is suspended at `await this.client.healthCheck()` and     *)
(* reads the sizes of the registries when it resumes.                      *)
(***************************************************************************)
\* the states of an instance whose constructor has returned
Constructed == {"serving", "closing", "closed"}

\* the array literal of getHealth, given what the probe resolved with
HealthChecks(probe, toolCount, resourceCount) ==
    <<[name |-> "bookstack_connection", healthy |-> probe,
       message |-> [text |-> "BookStack API connection"]],
      [name |-> "tools_loaded", healthy |-> toolCount > 0,
       message |-> [n |-> toolCount, text |-> " tools loaded"]],
      [name |-> "resources_loaded", healthy |-> resourceCount > 0,
       message |-> [n |-> resourceCount, text |-> " resources loaded"]]>>

\* a status that reports on the registries alone
HealthStatus_ignoresProbe(checks) ==
    IF \A i \in 2..Len(checks) : checks[i].healthy THEN "healthy" ELSE "unhealthy"

\* checks.every(check => check.healthy) ? 'healthy' : 'unhealthy'
HealthStatus(checks) ==
    IF \A i \in 1..Len(checks) : checks[i].healthy THEN "healthy" ELSE "unhealthy"

\* getHealth up to `await this.client.healthCheck()`
GetHealthStart ==
    /\ pc \in Constructed
    /\ nextId < MaxReq
    /\ nextId' = nextId + 1
    /\ inflight' = inflight \cup {[op |-> "getHealth", id |-> nextId + 1]}
    /\ UNCHANGED <<pc, toolFeed, toolIdx, resFeed, resIdx, tools, resources,
                   lastResponse, handlerFailures>>
    /\ UNCHANGED <<httpVars, run, settled>>

\* getHealth after the probe resolved with `probe`
GetHealthResolve(r, probe) ==
    /\ r \in inflight
    /\ r.op = "getHealth"
    /\ inflight' = inflight \ {r}
    /\ LET checks == HealthChecks(probe, MapSize(tools), MapSize(resources))
       IN  lastResponse' = [op |-> "getHealth", id |-> r.id, ok |-> TRUE,
                            probe |-> probe,
                            report |-> [status |-> HealthStatus(checks),
                                        checks |-> checks]]
    /\ UNCHANGED <<pc, toolFeed, toolIdx, resFeed, resIdx, tools, resources,
                   nextId, handlerFailures>>
    /\ UNCHANGED <<httpVars, run, settled>>

\* getHealth after the probe rejected with `err`: nothing catches the
\* rejection of the awaited promise, so the promise of getHealth rejects
\* with it
GetHealthReject(r, err) ==
    /\ r \in inflight
    /\ r.op = "getHealth"
    /\ inflight' = inflight \ {r}
    /\ lastResponse' = [op |-> "getHealth", id |-> r.id, ok |-> FALSE,
                        probeRaised |-> err, rejection |-> err]
    /\ UNCHANGED <<pc, toolFeed, toolIdx, resFeed, resIdx, tools, resources,
                   nextId, handlerFailures>>
    /\ UNCHANGED <<httpVars, run, settled>>

(***************************************************************************)
(* shutdown. server.close() closes the transport, so no protocol request   *)
(* arrives once shutdown has begun; handlers already invoked still settle. *)
(***************************************************************************)
\* shutdown up to `await this.server.close()`
ShutdownStart ==
    /\ pc = "serving"
    /\ pc' = "closing"
    /\ UNCHANGED <<toolFeed, toolIdx, resFeed, resIdx, tools, resources, nextId,
                   inflight, lastResponse, handlerFailures>>
    /\ UNCHANGED <<httpVars, run, settled>>

\* a shutdown that lets the failure of close() escape and drops what is
\* suspended
ShutdownFinish_rethrows(closeFailed) ==
    /\ pc = "closing"
    /\ pc' = "closed"
    /\ inflight' = IF closeFailed THEN {} ELSE inflight
    /\ lastResponse' =
          [op |-> "shutdown", id |-> 0, ok |-> ~closeFailed, closeFailed |-> closeFailed,
           trace |-> <<"info:Shutting down",
                       IF closeFailed THEN "error:Error during shutdown"
                                      ELSE "info:Server shutdown complete">>]
    /\ UNCHANGED <<toolFeed, toolIdx, resFeed, resIdx, tools, resources, nextId,
                   handlerFailures>>
    /\ UNCHANGED <<httpVars, run, settled>>

\* a shutdown that also empties the registries once the transport is closed
ShutdownFinish_clearsRegistries(closeFailed) ==
    /\ pc = "closing"
    /\ pc' = "closed"
    /\ tools' = <<>>
    /\ resources' = <<>>
    /\ lastResponse' =
          [op |-> "shutdown", id |-> 0, ok |-> TRUE, closeFailed |-> closeFailed,
           trace |-> <<"info:Shutting down",
                       IF closeFailed THEN "error:Error during shutdown"
                                      ELSE "info:Server shutdown complete">>]
    /\ UNCHANGED <<toolFeed, toolIdx, resFeed, resIdx, nextId, inflight,
                   handlerFailures>>
    /\ UNCHANGED <<httpVars, run, settled>>

\* shutdown after close() resolved (closeFailed = FALSE) or rejected: the
\* rejection is logged and shutdown resolves all the same
ShutdownFinish(closeFailed) ==
    /\ pc = "closing"
    /\ pc' = "closed"
    /\ lastResponse' =
          [op |-> "shutdown", id |-> 0, ok |-> TRUE, closeFailed |-> closeFailed,
           trace |-> <<"info:Shutting down",
                       IF closeFailed THEN "error:Error during shutdown"
                                      ELSE "info:Server shutdown complete">>]
    /\ UNCHANGED <<toolFeed, toolIdx, resFeed, resIdx, tools, resources, nextId,
                   inflight, handlerFailures>>
    /\ UNCHANGED <<httpVars, run, settled>>

(***************************************************************************)
(* HTTP mode: the handler of POST /message. It is suspended at             *)
(* `await server.connect(transport)` and at `await transport.handleRequest`*)
(* and several requests can be suspended at once.                          *)
(***************************************************************************)
\* a request header: absent, or present with a value
NoHeader == [present |-> FALSE, value |-> ""]

Header(v) == [present |-> TRUE, value |-> v]

\* values of x-bookstack-url and of x-bookstack-token
UrlHeaders == {NoHeader, Header("url-a"), Header("url-b")}

TokenHeaders == {NoHeader, Header(""), Header("token-a")}

\* a fallback that is taken only when the header is absent
OrElse_whenPresent(h, fallback) == IF h.present THEN h.value ELSE fallback

\* header || fallback
OrElse(h, fallback) == IF h.present /\ h.value # "" THEN h.value ELSE fallback

\* the configOverrides object of the handler
ConfigOverrides(url, token, config) ==
    [bookstack |-> [baseUrl  |-> OrElse(url, config.bookstack.baseUrl),
                    apiToken |-> OrElse(token, config.bookstack.apiToken),
                    timeout  |-> config.bookstack.timeout]]

\* { ...a, ...b }
Spread(a, b) ==
    [k \in DOMAIN a \cup DOMAIN b |-> IF k \in DOMAIN b THEN b[k] ELSE a[k]]

\* a constructor that merges the overrides into the configuration object of
\* the process itself
ConstructorConfig_inPlace(base, overrides) ==
    LET merged ==
            IF overrides # Undefined /\ "bookstack" \in DOMAIN overrides
            THEN [base EXCEPT !.bookstack = Spread(base.bookstack, overrides.bookstack)]
            ELSE base
    IN  [instance |-> merged, process |-> merged]

\* the constructor's merge: const config = { ...baseConfig }; if
\* (configOverrides && configOverrides.bookstack) config.bookstack =
\* { ...config.bookstack, ...configOverrides.bookstack }. `instance` is the
\* configuration the new client is built with, `process` the configuration
\* object of the process afterwards.
ConstructorConfig(base, overrides) ==
    LET copy == Spread(base, <<>>)
    IN  [instance |->
            IF overrides # Undefined /\ "bookstack" \in DOMAIN overrides
            THEN [copy EXCEPT !.bookstack = Spread(copy.bookstack, overrides.bookstack)]
            ELSE copy,
         process |-> base]

\* setupTools and setupResources run to their end, as the constructor runs
\* them
RECURSIVE SetupToolsFrom(_, _, _)
SetupToolsFrom(m, feed, i) ==
    IF i > Len(feed) THEN m ELSE SetupToolsFrom(ToolsAfterSet(m, feed[i]), feed, i + 1)

RECURSIVE SetupResourcesFrom(_, _, _)
SetupResourcesFrom(m, feed, i) ==
    IF i > Len(feed) THEN m
    ELSE SetupResourcesFrom(ResourcesAfterSet(m, feed[i]), feed, i + 1)

\* the response object before anything has been written to it
NoReply == [headersSent |-> FALSE, status |-> 0, body |-> ""]

\* a catch block that only logs
PostCatch_onlyLogs(res) == res

\* the catch block: console.error(...); if (!res.headersSent)
\* res.status(500).send('Internal Server Error')
PostCatch(res) ==
    IF ~res.headersSent
    THEN [headersSent |-> TRUE, status |-> 500, body |-> "Internal Server Error"]
    ELSE res

\* how transport.handleRequest can settle: it resolves after the transport
\* has written the response, or it rejects, before or after the transport
\* has written the response head
HandleOutcomes ==
    {[threw |-> FALSE, sent |-> TRUE,  status |-> 200],
     [threw |-> FALSE, sent |-> TRUE,  status |-> 400],
     [threw |-> TRUE,  sent |-> FALSE, status |-> 0],
     [threw |-> TRUE,  sent |-> TRUE,  status |-> 200]}

\* the handler up to `await server.connect(transport)`, or up to the end of
\* its catch block when the constructor throws
PostReceive(url, token, constructorThrows) ==
    /\ Len(posts) < MaxPosts
    /\ LET built == ConstructorConfig(processConfig,
                                      ConfigOverrides(url, token, processConfig))
       IN  IF constructorThrows
           THEN /\ posts' = Append(posts,
                       [url |-> url, token |-> token, stage |-> "done",
                        instance |-> 0, clientConfig |-> <<>>,
                        tools |-> <<>>, resources |-> <<>>,
                        raisedAt |-> "constructor", sentBeforeCatch |-> FALSE,
                        res |-> PostCatch(NoReply)])
                /\ UNCHANGED <<instances, processConfig>>
           ELSE /\ posts' = Append(posts,
                       [url |-> url, token |-> token, stage |-> "connecting",
                        instance |-> instances + 1,
                        clientConfig |-> built.instance.bookstack,
                        tools |-> SetupToolsFrom(<<>>, DefaultToolFeed, 1),
                        resources |-> SetupResourcesFrom(<<>>, DefaultResFeed, 1),
                        raisedAt |-> "", sentBeforeCatch |-> FALSE,
                        res |-> NoReply])
                /\ instances' = instances + 1
                /\ processConfig' = built.process
    /\ UNCHANGED <<instanceVars, run, settled>>

\* new BookStackMCPServer(): a server constructed without overrides, as the
\* stdio entry point constructs it. It is recorded among the posts as one
\* that carries no headers and answers nothing.
NewServerWithoutOverrides ==
    /\ Len(posts) < MaxPosts
    /\ LET built == ConstructorConfig(processConfig, Undefined)
       IN  /\ posts' = Append(posts,
                   [url |-> NoHeader, token |-> NoHeader, stage |-> "plain",
                    instance |-> instances + 1,
                    clientConfig |-> built.instance.bookstack,
                    tools |-> SetupToolsFrom(<<>>, DefaultToolFeed, 1),
                    resources |-> SetupResourcesFrom(<<>>, DefaultResFeed, 1),
                    raisedAt |-> "", sentBeforeCatch |-> FALSE,
                    res |-> NoReply])
           /\ instances' = instances + 1
           /\ processConfig' = built.process
    /\ UNCHANGED <<instanceVars, run, settled>>

\* the handler after server.connect(transport) settled
PostConnectSettled(i, failed) ==
    /\ i \in 1..Len(posts)
    /\ posts[i].stage = "connecting"
    /\ posts' = [posts EXCEPT ![i] =
                    IF failed
                    THEN [@ EXCEPT !.stage = "done", !.raisedAt = "connect",
                                   !.res = PostCatch(@)]
                    ELSE [@ EXCEPT !.stage = "handling"]]
    /\ UNCHANGED <<instances, processConfig>>
    /\ UNCHANGED <<instanceVars, run, settled>>

\* the handler after transport.handleRequest(req, res, req.body) settled
PostHandleSettled(i, outcome) ==
    /\ i \in 1..Len(posts)
    /\ posts[i].stage = "handling"
    /\ LET written == IF outcome.sent
                      THEN [headersSent |-> TRUE, status |-> outcome.status,
                            body |-> "transport"]
                      ELSE posts[i].res
       IN  posts' = [posts EXCEPT ![i] =
                        IF outcome.threw
                        THEN [@ EXCEPT !.stage = "done",
                                       !.raisedAt = "handleRequest",
                                       !.sentBeforeCatch = outcome.sent,
                                       !.res = PostCatch(written)]
                        ELSE [@ EXCEPT !.stage = "done", !.res = written]]
    /\ UNCHANGED <<instances, processConfig>>
    /\ UNCHANGED <<instanceVars, run, settled>>

(***************************************************************************)
(* The handlers of the catalog's tools: what `tool.handler(params)` runs.  *)
(* A handler validates synchronously, then is suspended at its one call of *)
(* the API client. A run records, in order, the validator calls and the    *)
(* client call the handler has made.                                       *)
(***************************************************************************)
K_id == <<"i", "d">>
K_name == <<"n", "a", "m", "e">>
K_format == <<"f", "o", "r", "m", "a", "t">>
K_content_type == <<"c", "o", "n", "t", "e", "n", "t", "_", "t", "y", "p", "e">>
K_content_id == <<"c", "o", "n", "t", "e", "n", "t", "_", "i", "d">>
K_migrate_ownership_id == <<"m", "i", "g", "r", "a", "t", "e", "_", "o", "w", "n", "e", "r", "s", "h", "i", "p", "_", "i", "d">>

\* params.key: undefined when params has no such property
Prop(params, key) ==
    IF \E i \in 1..Len(params.keys) : params.keys[i] = key
    THEN params.vals[CHOOSE i \in 1..Len(params.keys) : params.keys[i] = key]
    ELSE Undefined

RECURSIVE OmitFrom(_, _, _)
OmitFrom(params, keys, i) ==
    IF i > Len(params.keys) THEN JObj(<<>>, <<>>)
    ELSE LET rest == OmitFrom(params, keys, i + 1)
         IN IF params.keys[i] \in keys THEN rest
            ELSE JObj(<<params.keys[i]>> \o rest.keys, <<params.vals[i]>> \o rest.vals)

\* const { key: _, ...rest } = params
Omit(params, keys) == OmitFrom(params, keys, 1)

IsDigit(c) == \E d \in 0..9 : Digit(d) = c

RECURSIVE DigitsValue(_)
DigitsValue(s) ==
    IF s = <<>> THEN 0
    ELSE 10 * DigitsValue(SubSeq(s, 1, Len(s) - 1))
         + (CHOOSE d \in 0..9 : Digit(d) = s[Len(s)])

\* validator.validateId(raw): the integer a positive integer-like value
\* stands for; it throws on every other value
ValidateId(raw) ==
    LET n == IF raw.t = "num" THEN raw.n
             ELSE IF raw.t = "str" /\ raw.s # <<>>
                     /\ \A i \in 1..Len(raw.s) : IsDigit(raw.s[i])
             THEN DigitsValue(raw.s)
             ELSE 0
    IN [e |-> "validateId", raw |-> raw, ok |-> n > 0,
        out |-> IF n > 0 THEN JNum(n) ELSE Undefined]

\* validator.validateParams(raw, schemaName): the schema accepts or throws;
\* what it gives back is a value of the validator's, made from raw under
\* that schema
ValidateParams(raw, schemaName, accepts) ==
    [e |-> "validateParams", raw |-> raw, schema |-> schemaName, ok |-> accepts,
     out |-> IF accepts
             THEN [t |-> "validated", schema |-> schemaName, data |-> raw]
             ELSE Undefined]

\* this.client.method(...args)
ClientCall(method, args) == [e |-> "client", method |-> method, args |-> args]

\* the handler throws after these validator calls
Throws(events) == [events |-> events, threw |-> TRUE, message |-> FALSE]

\* the handler is suspended at `await this.client.method(...args)`; message
\* tells whether it returns its own success message afterwards
Awaits(events, method, args, message) ==
    [events |-> events \o <<ClientCall(method, args)>>, threw |-> FALSE,
     message |-> message]

\* list, create, search, audit log
HandlerValidated(tool, params, accepts) ==
    LET validatedParams == ValidateParams(params, tool.schema, accepts)
    IN IF ~validatedParams.ok THEN Throws(<<validatedParams>>)
       ELSE Awaits(<<validatedParams>>, tool.method, <<validatedParams.out>>, FALSE)

\* read
HandlerById(tool, params) ==
    LET id == ValidateId(Prop(params, K_id))
    IN IF ~id.ok THEN Throws(<<id>>)
       ELSE Awaits(<<id>>, tool.method, <<id.out>>, FALSE)

\* delete, and restore and purge of the recycle bin
HandlerDeleteById(tool, params) ==
    LET id == ValidateId(Prop(params, K_id))
    IN IF ~id.ok THEN Throws(<<id>>)
       ELSE Awaits(<<id>>, tool.method, <<id.out>>, TRUE)

\* an update handler that validates and forwards all of params
HandlerUpdate_keepsId(tool, params, accepts) ==
    LET id == ValidateId(Prop(params, K_id))
        validatedParams == ValidateParams(params, tool.schema, accepts)
    IN IF ~id.ok THEN Throws(<<id>>)
       ELSE IF ~validatedParams.ok THEN Throws(<<id, validatedParams>>)
       ELSE Awaits(<<id, validatedParams>>, tool.method,
                   <<id.out, validatedParams.out>>, FALSE)

\* an update handler that calls the client before it validates the rest
HandlerUpdate_callsFirst(tool, params, accepts) ==
    LET id == ValidateId(Prop(params, K_id))
        updateParams == Omit(params, {K_id})
        validatedParams == ValidateParams(updateParams, tool.schema, accepts)
    IN IF ~id.ok THEN Throws(<<id>>)
       ELSE IF ~validatedParams.ok
       THEN Throws(<<id, ClientCall(tool.method, <<id.out, updateParams>>),
                     validatedParams>>)
       ELSE Awaits(<<id, validatedParams>>, tool.method,
                   <<id.out, validatedParams.out>>, FALSE)

\* update
HandlerUpdate(tool, params, accepts) ==
    LET id == ValidateId(Prop(params, K_id))
        updateParams == Omit(params, {K_id})
        validatedParams == ValidateParams(updateParams, tool.schema, accepts)
    IN IF ~id.ok THEN Throws(<<id>>)
       ELSE IF ~validatedParams.ok THEN Throws(<<id, validatedParams>>)
       ELSE Awaits(<<id, validatedParams>>, tool.method,
                   <<id.out, validatedParams.out>>, FALSE)

\* export of a book, a chapter, a page
HandlerExport(tool, params) ==
    LET id == ValidateId(Prop(params, K_id))
        format == Prop(params, K_format)
    IN IF ~id.ok THEN Throws(<<id>>)
       ELSE Awaits(<<id>>, tool.method, <<id.out, format>>, FALSE)

\* delete of a user, a role
HandlerDeleteMigrate(tool, params) ==
    LET id == ValidateId(Prop(params, K_id))
    IN IF ~id.ok THEN Throws(<<id>>)
       ELSE Awaits(<<id>>, tool.method,
                   <<id.out, Prop(params, K_migrate_ownership_id)>>, TRUE)

\* bookstack_permissions_read
HandlerPermissionsRead(tool, params) ==
    LET content_type == Prop(params, K_content_type)
        content_id == Prop(params, K_content_id)
        id == ValidateId(content_id)
    IN IF ~id.ok THEN Throws(<<id>>)
       ELSE Awaits(<<id>>, tool.method, <<content_type, id.out>>, FALSE)

\* bookstack_permissions_update
HandlerPermissionsUpdate(tool, params, accepts) ==
    LET content_type == Prop(params, K_content_type)
        content_id == Prop(params, K_content_id)
        updateParams == Omit(params, {K_content_type, K_content_id})
        id == ValidateId(content_id)
        validatedParams == ValidateParams(updateParams, tool.schema, accepts)
    IN IF ~id.ok THEN Throws(<<id>>)
       ELSE IF ~validatedParams.ok THEN Throws(<<id, validatedParams>>)
       ELSE Awaits(<<id, validatedParams>>, tool.method,
                   <<content_type, id.out, validatedParams.out>>, FALSE)

\* bookstack_system_info
HandlerNoParams(tool) == Awaits(<<>>, tool.method, <<>>, FALSE)

\* the tools of the thirteen client-backed factories: the shape of the
\* handler, the schema name it validates with, the client method it calls
BuiltinTools ==
    {
     [name |-> "bookstack_books_list", shape |-> "validated",
      schema |-> "booksList", method |-> "listBooks"],
     [name |-> "bookstack_books_create", shape |-> "validated",
      schema |-> "bookCreate", method |-> "createBook"],
     [name |-> "bookstack_books_read", shape |-> "byId",
      schema |-> "", method |-> "getBook"],
     [name |-> "bookstack_books_update", shape |-> "update",
      schema |-> "bookUpdate", method |-> "updateBook"],
     [name |-> "bookstack_books_delete", shape |-> "deleteById",
      schema |-> "", method |-> "deleteBook"],
     [name |-> "bookstack_books_export", shape |-> "export",
      schema |-> "", method |-> "exportBook"],
     [name |-> "bookstack_pages_list", shape |-> "validated",
      schema |-> "pagesList", method |-> "listPages"],
     [name |-> "bookstack_pages_create", shape |-> "validated",
      schema |-> "pageCreate", method |-> "createPage"],
     [name |-> "bookstack_pages_read", shape |-> "byId",
      schema |-> "", method |-> "getPage"],
     [name |-> "bookstack_pages_update", shape |-> "update",
      schema |-> "pageUpdate", method |-> "updatePage"],
     [name |-> "bookstack_pages_delete", shape |-> "deleteById",
      schema |-> "", method |-> "deletePage"],
     [name |-> "bookstack_pages_export", shape |-> "export",
      schema |-> "", method |-> "exportPage"],
     [name |-> "bookstack_chapters_list", shape |-> "validated",
      schema |-> "chaptersList", method |-> "listChapters"],
     [name |-> "bookstack_chapters_create", shape |-> "validated",
      schema |-> "chapterCreate", method |-> "createChapter"],
     [name |-> "bookstack_chapters_read", shape |-> "byId",
      schema |-> "", method |-> "getChapter"],
     [name |-> "bookstack_chapters_update", shape |-> "update",
      schema |-> "chapterUpdate", method |-> "updateChapter"],
     [name |-> "bookstack_chapters_delete", shape |-> "deleteById",
      schema |-> "", method |-> "deleteChapter"],
     [name |-> "bookstack_chapters_export", shape |-> "export",
      schema |-> "", method |-> "exportChapter"],
     [name |-> "bookstack_shelves_list", shape |-> "validated",
      schema |-> "shelvesList", method |-> "listShelves"],
     [name |-> "bookstack_shelves_create", shape |-> "validated",
      schema |-> "shelfCreate", method |-> "createShelf"],
     [name |-> "bookstack_shelves_read", shape |-> "byId",
      schema |-> "", method |-> "getShelf"],
     [name |-> "bookstack_shelves_update", shape |-> "update",
      schema |-> "shelfUpdate", method |-> "updateShelf"],
     [name |-> "bookstack_shelves_delete", shape |-> "deleteById",
      schema |-> "", method |-> "deleteShelf"],
     [name |-> "bookstack_users_list", shape |-> "validated",
      schema |-> "usersList", method |-> "listUsers"],
     [name |-> "bookstack_users_create", shape |-> "validated",
      schema |-> "userCreate", method |-> "createUser"],
     [name |-> "bookstack_users_read", shape |-> "byId",
      schema |-> "", method |-> "getUser"],
     [name |-> "bookstack_users_update", shape |-> "update",
      schema |-> "userUpdate", method |-> "updateUser"],
     [name |-> "bookstack_users_delete", shape |-> "deleteMigrate",
      schema |-> "", method |-> "deleteUser"],
     [name |-> "bookstack_roles_list", shape |-> "validated",
      schema |-> "rolesList", method |-> "listRoles"],
     [name |-> "bookstack_roles_create", shape |-> "validated",
      schema |-> "roleCreate", method |-> "createRole"],
     [name |-> "bookstack_roles_read", shape |-> "byId",
      schema |-> "", method |-> "getRole"],
     [name |-> "bookstack_roles_update", shape |-> "update",
      schema |-> "roleUpdate", method |-> "updateRole"],
     [name |-> "bookstack_roles_delete", shape |-> "deleteMigrate",
      schema |-> "", method |-> "deleteRole"],
     [name |-> "bookstack_attachments_list", shape |-> "validated",
      schema |-> "attachmentsList", method |-> "listAttachments"],
     [name |-> "bookstack_attachments_create", shape |-> "validated",
      schema |-> "attachmentCreate", method |-> "createAttachment"],
     [name |-> "bookstack_attachments_read", shape |-> "byId",
      schema |-> "", method |-> "getAttachment"],
     [name |-> "bookstack_attachments_update", shape |-> "update",
      schema |-> "attachmentUpdate", method |-> "updateAttachment"],
     [name |-> "bookstack_attachments_delete", shape |-> "deleteById",
      schema |-> "", method |-> "deleteAttachment"],
     [name |-> "bookstack_images_list", shape |-> "validated",
      schema |-> "imagesList", method |-> "listImages"],
     [name |-> "bookstack_images_create", shape |-> "validated",
      schema |-> "imageCreate", method |-> "createImage"],
     [name |-> "bookstack_images_read", shape |-> "byId",
      schema |-> "", method |-> "getImage"],
     [name |-> "bookstack_images_update", shape |-> "update",
      schema |-> "imageUpdate", method |-> "updateImage"],
     [name |-> "bookstack_images_delete", shape |-> "deleteById",
      schema |-> "", method |-> "deleteImage"],
     [name |-> "bookstack_search", shape |-> "validated",
      schema |-> "search", method |-> "search"],
     [name |-> "bookstack_recyclebin_list", shape |-> "validated",
      schema |-> "recycleBinList", method |-> "listRecycleBin"],
     [name |-> "bookstack_recyclebin_restore", shape |-> "deleteById",
      schema |-> "", method |-> "restoreFromRecycleBin"],
     [name |-> "bookstack_recyclebin_delete_permanently", shape |-> "deleteById",
      schema |-> "", method |-> "permanentlyDelete"],
     [name |-> "bookstack_permissions_read", shape |-> "permissionsRead",
      schema |-> "", method |-> "getContentPermissions"],
     [name |-> "bookstack_permissions_update", shape |-> "permissionsUpdate",
      schema |-> "contentPermissionsUpdate", method |-> "updateContentPermissions"],
     [name |-> "bookstack_audit_log_list", shape |-> "validated",
      schema |-> "auditLogList", method |-> "listAuditLog"],
     [name |-> "bookstack_system_info", shape |-> "noParams",
      schema |-> "", method |-> "getSystemInfo"]
    }

\* tool.handler(params), up to the point where it throws or is suspended
ToolHandler(tool, params, accepts) ==
    CASE tool.shape = "validated"         -> HandlerValidated(tool, params, accepts)
      [] tool.shape = "byId"              -> HandlerById(tool, params)
      [] tool.shape = "deleteById"        -> HandlerDeleteById(tool, params)
      [] tool.shape = "update"            -> HandlerUpdate(tool, params, accepts)
      [] tool.shape = "export"            -> HandlerExport(tool, params)
      [] tool.shape = "deleteMigrate"     -> HandlerDeleteMigrate(tool, params)
      [] tool.shape = "permissionsRead"   -> HandlerPermissionsRead(tool, params)
      [] tool.shape = "permissionsUpdate" -> HandlerPermissionsUpdate(tool, params, accepts)
      [] OTHER                            -> HandlerNoParams(tool)

\* arguments a caller can send
ParamsPool ==
    {JObj(<<K_id, K_name>>, <<JNum(5), JStr(<<"n">>)>>),
     JObj(<<K_name, K_id>>, <<JStr(<<"n">>), JStr(<<"7">>)>>),
     JObj(<<K_id, K_name>>, <<JStr(<<"x">>), JStr(<<"n">>)>>),
     JObj(<<K_name>>, <<JStr(<<"n">>)>>),
     JObj(<<K_id, K_format>>, <<JNum(5), JStr(<<"e", "x", "e">>)>>),
     JObj(<<K_id, K_migrate_ownership_id>>, <<JNum(5), JStr(<<"x">>)>>),
     JObj(<<K_content_type, K_content_id, K_name>>,
          <<JStr(<<"b", "l", "o", "b">>), JNum(5), JStr(<<"n">>)>>),
     JObj(<<K_id>>, <<JNum(0)>>),
     JObj(<<>>, <<>>)}

\* the handler of a tool is invoked and runs until it throws or awaits the
\* client
ToolHandlerInvoke(tool, params, accepts) ==
    /\ run.stage # "awaiting"
    /\ LET h == ToolHandler(tool, params, accepts)
       IN run' = [tool |-> tool.name, params |-> params, events |-> h.events,
                  stage |-> IF h.threw THEN "threw"
                            ELSE "awaiting",
                  result |-> IF h.threw THEN "validation error"
                             ELSE IF h.message THEN "message pending"
                             ELSE "result pending"]
    /\ UNCHANGED <<instanceVars, httpVars, settled>>

\* the client call settles: the handler returns the client's result or its
\* own success message, or rejects with the client's error
ClientSettles(ok) ==
    /\ run.stage = "awaiting"
    /\ run' = [run EXCEPT !.stage = IF ok THEN "returned" ELSE "rejected",
                          !.result = IF ~ok THEN "client error"
                                     ELSE IF run.result = "message pending"
                                     THEN "success message"
                                     ELSE "client result"]
    /\ UNCHANGED <<instanceVars, httpVars, settled>>

(***************************************************************************)
(* The await of a handler, in two steps: the promise of the handler        *)
(* settles, which is the collaborator's doing, and the event loop resumes  *)
(* the request handler that awaits it. The event loop runs every           *)
(* continuation that is ready.                                             *)
(***************************************************************************)
SettleOutcomes ==
    {[ok |-> TRUE, value |-> ValObject], [ok |-> FALSE, err |-> Raised("upstream")]}

\* the promise `tool.handler(...)` or `matchedResource.handler(uri)` of
\* request r settles
HandlerSettles(r, outcome) ==
    /\ r \in inflight
    /\ r.op \in {"callTool", "readResource"}
    /\ \A s \in settled : s.id # r.id
    /\ settled' = settled \cup {[id |-> r.id, outcome |-> outcome]}
    /\ UNCHANGED <<instanceVars, httpVars, run>>

\* an event loop that resumes a request only when no earlier one is suspended
Continue_inArrivalOrder(id) ==
    \E r \in inflight, s \in settled :
        /\ r.id = id
        /\ s.id = id
        /\ \A q \in inflight : q.id >= id
        /\ \/ r.op = "callTool" /\ s.outcome.ok /\ CallToolResolve(r, s.outcome.value)
           \/ r.op = "callTool" /\ ~s.outcome.ok /\ CallToolReject(r, s.outcome.err)
           \/ r.op = "readResource" /\ s.outcome.ok
              /\ ReadResourceResolve(r, s.outcome.value)
           \/ r.op = "readResource" /\ ~s.outcome.ok
              /\ ReadResourceReject(r, s.outcome.err)

\* the request handler of request id resumes after its await: the rest of
\* the try block, or the catch block
Continue(id) ==
    \E r \in inflight, s \in settled :
        /\ r.id = id
        /\ s.id = id
        /\ \/ r.op = "callTool" /\ s.outcome.ok /\ CallToolResolve(r, s.outcome.value)
           \/ r.op = "callTool" /\ ~s.outcome.ok /\ CallToolReject(r, s.outcome.err)
           \/ r.op = "readResource" /\ s.outcome.ok
              /\ ReadResourceResolve(r, s.outcome.value)
           \/ r.op = "readResource" /\ ~s.outcome.ok
              /\ ReadResourceReject(r, s.outcome.err)

(***************************************************************************)
(* Specifications.                                                         *)
(***************************************************************************)
Construct ==
    \/ RegisterTool
    \/ FinishSetupTools
    \/ RegisterResource
    \/ FinishSetupResources

ToolRequests ==
    \/ ListTools
    \/ \E name \in RequestNames, args \in RequestArgs : CallToolStart(name, args)
    \/ \E r \in inflight, result \in ResultPool : CallToolResolve(r, result)
    \/ \E r \in inflight, err \in RaisedPool : CallToolReject(r, err)

ResourceRequests ==
    \/ ListResources
    \/ \E uri \in RequestUris : ReadResourceStart(uri)
    \/ \E r \in inflight, result \in ResultPool : ReadResourceResolve(r, result)
    \/ \E r \in inflight, err \in RaisedPool : ReadResourceReject(r, err)

\* one server built from the default catalog, serving both kinds of request
Init == InitWith(DefaultToolFeed, DefaultResFeed)

Next == Construct \/ ToolRequests \/ ResourceRequests

Spec == Init /\ [][Next]_vars

\* servers built from every list of tools, serving tool requests
InitTools == \E tf \in SeqsUpTo(ToolPool, MaxToolRegs) : InitWith(tf, DefaultResFeed)

NextTools == Construct \/ ToolRequests

SpecTools == InitTools /\ [][NextTools]_vars

\* servers built from every list of resources, serving resource requests
InitResources == \E rf \in SeqsUpTo(ResourcePool, MaxResRegs) : InitWith(DefaultToolFeed, rf)

NextResources == Construct \/ ResourceRequests

SpecResources == InitResources /\ [][NextResources]_vars

\* servers whose resource factories return a pattern more than once, with
\* another pattern in between
ReregPool == {ResBookById, ResBookFive, ResBookById2}

InitRereg == \E rf \in SeqsUpTo(ReregPool, MaxRereg) : InitWith(DefaultToolFeed, rf)

NextRereg ==
    \/ Construct
    \/ ListResources
    \/ \E uri \in {Str_b5, Str_b} : ReadResourceStart(uri)
    \/ \E r \in inflight : ReadResourceResolve(r, ValObject)
    \/ \E r \in inflight : ReadResourceReject(r, Raised("notfound"))

SpecRereg == InitRereg /\ [][NextRereg]_vars

\* servers constructed with the overrides of a post and without overrides,
\* in any order
InitConfig == InitWith(DefaultToolFeed, DefaultResFeed)

NextConfig ==
    \/ \E url \in UrlHeaders, token \in TokenHeaders, constructorThrows \in BOOLEAN :
          PostReceive(url, token, constructorThrows)
    \/ NewServerWithoutOverrides

SpecConfig == InitConfig /\ [][NextConfig]_vars

\* the handlers of the catalog's tools, one invocation after another
HandlerRuns ==
    \/ \E tool \in BuiltinTools, params \in ParamsPool, accepts \in BOOLEAN :
          ToolHandlerInvoke(tool, params, accepts)
    \/ \E ok \in BOOLEAN : ClientSettles(ok)

InitHandlers == InitWith(DefaultToolFeed, DefaultResFeed)

NextHandlers == HandlerRuns

SpecHandlers == InitHandlers /\ [][NextHandlers]_vars

\* concurrent requests whose handlers settle when, and if, the collaborator
\* lets them; ready continuations are run
InitFair == InitWith(DefaultToolFeed, DefaultResFeed)

NextFair ==
    \/ Construct
    \/ \E name \in {"t1", "t9"} : CallToolStart(name, Undefined)
    \/ \E uri \in {Str_b5, Str_b} : ReadResourceStart(uri)
    \/ \E r \in inflight, outcome \in SettleOutcomes : HandlerSettles(r, outcome)
    \/ \E id \in 1..MaxReq : Continue(id)

SpecFair ==
    /\ InitFair
    /\ [][NextFair]_vars
    /\ \A id \in 1..MaxReq : WF_vars(Continue(id))

(***************************************************************************)
(* The catalog setupTools registers: the names getTools() of each tool     *)
(* class returns, in the order of the toolClasses array.                   *)
(***************************************************************************)
BookToolNames ==
    <<"bookstack_books_list", "bookstack_books_create", "bookstack_books_read",
      "bookstack_books_update", "bookstack_books_delete", "bookstack_books_export">>

PageToolNames ==
    <<"bookstack_pages_list", "bookstack_pages_create", "bookstack_pages_read",
      "bookstack_pages_update", "bookstack_pages_delete", "bookstack_pages_export">>

ChapterToolNames ==
    <<"bookstack_chapters_list", "bookstack_chapters_create",
      "bookstack_chapters_read", "bookstack_chapters_update",
      "bookstack_chapters_delete", "bookstack_chapters_export">>

ShelfToolNames ==
    <<"bookstack_shelves_list", "bookstack_shelves_create", "bookstack_shelves_read",
      "bookstack_shelves_update", "bookstack_shelves_delete">>

UserToolNames ==
    <<"bookstack_users_list", "bookstack_users_create", "bookstack_users_read",
      "bookstack_users_update", "bookstack_users_delete">>

RoleToolNames ==
    <<"bookstack_roles_list", "bookstack_roles_create", "bookstack_roles_read",
      "bookstack_roles_update", "bookstack_roles_delete">>

AttachmentToolNames ==
    <<"bookstack_attachments_list", "bookstack_attachments_create",
      "bookstack_attachments_read", "bookstack_attachments_update",
      "bookstack_attachments_delete">>

ImageToolNames ==
    <<"bookstack_images_list", "bookstack_images_create", "bookstack_images_read",
      "bookstack_images_update", "bookstack_images_delete">>

SearchToolNames == <<"bookstack_search">>

RecycleBinToolNames ==
    <<"bookstack_recyclebin_list", "bookstack_recyclebin_restore",
      "bookstack_recyclebin_delete_permanently">>

PermissionToolNames == <<"bookstack_permissions_read", "bookstack_permissions_update">>

AuditToolNames == <<"bookstack_audit_log_list">>

\* a system factory whose tool takes the name of the search tool
SystemToolNames_asSearch == <<"bookstack_search">>

SystemToolNames == <<"bookstack_system_info">>

\* the names of the thirteen tool classes that take the client, in the
\* order toolClasses.forEach visits them
ClientToolNames ==
    BookToolNames \o PageToolNames \o ChapterToolNames \o ShelfToolNames
    \o UserToolNames \o RoleToolNames \o AttachmentToolNames \o ImageToolNames
    \o SearchToolNames \o RecycleBinToolNames \o PermissionToolNames
    \o AuditToolNames \o SystemToolNames

\* names the server-info factory, the last of toolClasses, can return: its
\* list is any list over names of its own and a name already registered
ServerInfoNames == {"server_info_a", "server_info_b", "bookstack_system_info"}

CatalogTool(name) == Tool(name, name, name, name)

CatalogFeed(serverInfo) ==
    [i \in 1..Len(ClientToolNames \o serverInfo) |->
        CatalogTool((ClientToolNames \o serverInfo)[i])]

\* the server as it is built from its own catalog
InitCatalog ==
    \E serverInfo \in SeqsUpTo(ServerInfoNames, MaxServerInfoTools) :
        InitWith(CatalogFeed(serverInfo), DefaultResFeed)

NextCatalog == Construct \/ ListTools

SpecCatalog == InitCatalog /\ [][NextCatalog]_vars

\* names of the server-info factory's own tools
OwnServerInfoNames == {"server_info_a", "server_info_b"}

\* the server as it is built when the server-info factory returns tools of
\* its own, each once
InitBuiltin ==
    \E serverInfo \in {si \in SeqsUpTo(OwnServerInfoNames, MaxServerInfoTools) :
                          \A i, j \in 1..Len(si) : si[i] = si[j] => i = j} :
        InitWith(CatalogFeed(serverInfo), DefaultResFeed)

NextBuiltin == Construct \/ ListTools

SpecBuiltin == InitBuiltin /\ [][NextBuiltin]_vars

HealthRequests ==
    \/ GetHealthStart
    \/ \E r \in inflight, probe \in BOOLEAN : GetHealthResolve(r, probe)
    \/ \E r \in inflight : GetHealthReject(r, Raised("upstream"))

Shutdown ==
    \/ ShutdownStart
    \/ \E closeFailed \in BOOLEAN : ShutdownFinish(closeFailed)

\* servers with empty and with populated registries, under every operation
\* of the instance
InitOps ==
    \E tf \in {<<>>, DefaultToolFeed}, rf \in {<<>>, DefaultResFeed} : InitWith(tf, rf)

NextOps == Construct \/ ToolRequests \/ ResourceRequests \/ HealthRequests \/ Shutdown

SpecOps == InitOps /\ [][NextOps]_vars

\* the HTTP listener
InitHttp == InitWith(DefaultToolFeed, DefaultResFeed)

NextHttp ==
    \/ \E url \in UrlHeaders, token \in TokenHeaders, constructorThrows \in BOOLEAN :
          PostReceive(url, token, constructorThrows)
    \/ \E i \in 1..Len(posts), failed \in BOOLEAN : PostConnectSettled(i, failed)
    \/ \E i \in 1..Len(posts), outcome \in HandleOutcomes : PostHandleSettled(i, outcome)

SpecHttp == InitHttp /\ [][NextHttp]_vars

(***************************************************************************)
(* What has been registered, read off the factories' lists and not off the *)
(* maps.                                                                   *)
(***************************************************************************)
\* the tools registered so far, in registration order
ToolHistory == SubSeq(toolFeed, 1, toolIdx)

RegisteredNames == {ToolHistory[i].name : i \in 1..toolIdx}

\* the tool registered last under `name`
LastRegisteredTool(name) ==
    ToolHistory[CHOOSE i \in 1..toolIdx :
                    /\ ToolHistory[i].name = name
                    /\ \A j \in (i + 1)..toolIdx : ToolHistory[j].name # name]

\* the resources registered so far, in registration order
ResourceHistory == SubSeq(resFeed, 1, resIdx)

RegisteredPatterns == {ResourceHistory[i].uri : i \in 1..resIdx}

\* the resource registered last under the pattern `uri`
LastRegisteredResource(uri) ==
    ResourceHistory[CHOOSE i \in 1..resIdx :
                        /\ ResourceHistory[i].uri = uri
                        /\ \A j \in (i + 1)..resIdx : ResourceHistory[j].uri # uri]

\* the call-tool requests whose handler has been invoked
InvokedCalls ==
    {r \in inflight : r.op = "callTool"}
    \cup (IF lastResponse.op = "callTool" /\ lastResponse.handler # ""
          THEN {lastResponse} ELSE {})

\* the read-resource requests whose handler has been invoked
InvokedReads ==
    {r \in inflight : r.op = "readResource"}
    \cup (IF lastResponse.op = "readResource" /\ lastResponse.handler # ""
          THEN {lastResponse} ELSE {})

(***************************************************************************)
(* Claims.                                                                 *)
(***************************************************************************)
\* C1: a later registration under an already registered name replaces the
\* earlier entry: after N registrations with K distinct names the registry
\* holds exactly K tools, and every call-tool on a name invokes the handler
\* registered last under that name and no other.
C1_LastRegistrationWins ==
    /\ MapSize(tools) = Cardinality(RegisteredNames)
    /\ \A r \in InvokedCalls : r.handler = LastRegisteredTool(r.name).handler

\* C1 witness: two registrations under one name, and a completed call of it
\* served by the second handler.
C1_Witness ==
    /\ toolIdx = 2
    /\ Cardinality(RegisteredNames) = 1
    /\ lastResponse.op = "callTool"
    /\ lastResponse.name = "t1"
    /\ lastResponse.ok
    /\ lastResponse.handler = ToolHistory[2].handler
    /\ ToolHistory[1].handler # ToolHistory[2].handler

\* the read-resource request received last, suspended or completed
LatestRead ==
    {r \in inflight : r.op = "readResource" /\ r.id = nextId}
    \cup (IF lastResponse.op = "readResource" /\ lastResponse.id = nextId
          THEN {lastResponse} ELSE {})

\* the entries of this.resources the scan of request q tested
Tested(q) == 1..(IF q.matched = 0 THEN Len(resources) ELSE q.matched)

Min(S) == CHOOSE x \in S : \A y \in S : x <= y

\* C2: resource resolution is one ordered scan over exact and templated
\* patterns alike: a read is dispatched to the resource stored under the
\* earliest-registered pattern that matches the URI, also when a pattern
\* registered later is an exact pattern equal to the URI; it is dispatched to
\* no resource when no pattern matches.
C2_FirstRegisteredPatternWins ==
    \A q \in LatestRead :
        LET hits == {i \in 1..resIdx : PatternMatches(ResourceHistory[i].uri, q.uri)}
        IN  IF hits = {}
            THEN q.handler = ""
            ELSE q.handler =
                    LastRegisteredResource(ResourceHistory[Min(hits)].uri).handler

\* C2 witness: patterns /b/{i} then /b/5, and a read of /b/5 served by the
\* resource of /b/{i}.
C2_Witness ==
    /\ MapKeys(resources) = <<Pat_bI, Str_b5>>
    /\ lastResponse.op = "readResource"
    /\ lastResponse.uri = Str_b5
    /\ lastResponse.ok
    /\ lastResponse.handler = resources[1].value.handler

\* the parts of a templated pattern: each {name} with a non-empty name is one
\* placeholder, every other character is a literal
RECURSIVE PatternParts(_, _)
PatternParts(pattern, i) ==
    IF i > Len(pattern) THEN <<>>
    ELSE IF /\ pattern[i] = "{"
            /\ \E j \in (i + 2)..Len(pattern) :
                   pattern[j] = "}" /\ \A k \in (i + 1)..(j - 1) : pattern[k] # "}"
    THEN LET j == CHOOSE j \in (i + 2)..Len(pattern) :
                      pattern[j] = "}" /\ \A k \in (i + 1)..(j - 1) : pattern[k] # "}"
         IN  <<[ph |-> TRUE]>> \o PatternParts(pattern, j + 1)
    ELSE <<[ph |-> FALSE, c |-> pattern[i]] >> \o PatternParts(pattern, i + 1)

\* a literal of the pattern against a character of the URI, as the compiled
\* expression compares them ("." stands for any character)
LiteralAgrees(c, u) == c = "." \/ c = u

RECURSIVE WidthBefore(_, _, _)
WidthBefore(parts, len, k) ==
    IF k = 1 THEN 0
    ELSE WidthBefore(parts, len, k - 1)
         + (IF parts[k - 1].ph THEN len[k - 1] ELSE 1)

\* the URI is the pattern with every placeholder replaced by one sequence of
\* one or more characters other than "/"
SegmentwiseMatch(pattern, uri) ==
    LET parts == PatternParts(pattern, 1)
        n     == Len(parts)
        phs   == {k \in 1..n : parts[k].ph}
        room  == Len(uri) - n + 1
    IN  /\ room >= 1
        /\ \E len \in [phs -> 1..room] :
              /\ WidthBefore(parts, len, n + 1) = Len(uri)
              /\ \A k \in 1..n :
                    LET from == WidthBefore(parts, len, k) + 1
                    IN  IF parts[k].ph
                        THEN \A x \in from..(from + len[k] - 1) : uri[x] # "/"
                        ELSE LiteralAgrees(parts[k].c, uri[from])

\* C3: in a templated pattern every {name} placeholder stands for exactly
\* one sequence of one or more characters other than "/": the scan takes a
\* templated pattern for a match exactly when the URI is the pattern with
\* each placeholder so replaced, hence never for a URI with an empty
\* placeholder, a missing or an extra trailing segment, or a "/" in a
\* placeholder position (/b/{i}/c/{j} matches /b/5/c/9, not /b/5/c, not
\* /b/5/c/9/x).
C3_PlaceholderIsOneSegment ==
    \A q \in LatestRead :
        \A i \in Tested(q) :
            Includes(resources[i].key, "{") =>
                ((i = q.matched) <=> SegmentwiseMatch(resources[i].key, q.uri))

\* C3 witness: /b/{i}/c/{j} registered first and a read of /b/5/c/9 matched
\* by it.
C3_Witness ==
    /\ lastResponse.op = "readResource"
    /\ lastResponse.uri = Str_b5c9
    /\ lastResponse.ok
    /\ lastResponse.matched = 1
    /\ resources[1].key = Pat_bIcJ

\* C3 witness of the negative cases: /b/{i}/c/{j} is the only pattern and a
\* read of /b/5/c/9/x is answered as unknown.
C3_WitnessExtraSegment ==
    /\ MapKeys(resources) = <<Pat_bIcJ>>
    /\ lastResponse.op = "readResource"
    /\ lastResponse.uri = Str_b5c9x
    /\ ~lastResponse.ok

\* two strings are the same string: same length, same character everywhere
SameString(a, b) == Len(a) = Len(b) /\ \A k \in 1..Len(a) : a[k] = b[k]

\* C4: a pattern without "{" matches a request URI if and only if the URI
\* is string-identical to the pattern.
C4_ExactPatternIsIdentity ==
    \A q \in LatestRead :
        \A i \in Tested(q) :
            ~Includes(resources[i].key, "{") =>
                ((i = q.matched) <=> SameString(resources[i].key, q.uri))

\* C4 witness: a read matched by an exact pattern.
C4_Witness ==
    /\ lastResponse.op = "readResource"
    /\ lastResponse.ok
    /\ lastResponse.matched = 1
    /\ resources[1].key = Str_b5
    /\ lastResponse.uri = Str_b5

\* C6: a read-resource whose URI matches none of the registered patterns
\* fails with the unknown-resource error carrying exactly the requested URI,
\* and no resource handler is invoked for it.
C6_UnknownResource ==
    /\ \A r \in InvokedReads :
           \E p \in RegisteredPatterns : PatternMatches(p, r.uri)
    /\ (/\ lastResponse.op = "readResource"
        /\ \A p \in RegisteredPatterns : ~PatternMatches(p, lastResponse.uri))
       => /\ ~lastResponse.ok
          /\ lastResponse.error =
                [translated |-> FALSE, kind |-> "Error",
                 text |-> "Unknown resource: ", uri |-> lastResponse.uri]
          /\ lastResponse.handler = ""
          /\ \A k \in 1..Len(lastResponse.trace) : lastResponse.trace[k] # "invoke"

\* C6 witness: resources are registered and a read of a URI none of them
\* matches has been answered.
C6_Witness ==
    /\ Len(resources) = 2
    /\ lastResponse.op = "readResource"
    /\ \A p \in RegisteredPatterns : ~PatternMatches(p, lastResponse.uri)
    /\ ~lastResponse.ok
    /\ lastResponse.error.uri = Str_b5c9x

\* C9: a successful read-resource response has exactly one content block;
\* its uri is the requested URI, its mimeType the one declared by the
\* matched resource, and its text the handler's result verbatim when the
\* result is a string (never JSON-quoted) and its JSON serialization with an
\* indent of two spaces otherwise.
C9_ResourceContents ==
    (lastResponse.op = "readResource" /\ lastResponse.ok) =>
        /\ Len(lastResponse.contents) = 1
        /\ DOMAIN lastResponse.contents[1] = {"uri", "mimeType", "text"}
        /\ lastResponse.contents[1].uri = lastResponse.uri
        /\ lastResponse.contents[1].mimeType =
              LastRegisteredResource(resources[lastResponse.matched].key).mimeType
        /\ lastResponse.contents[1].text =
              IF lastResponse.result.t = "str"
              THEN lastResponse.result.s
              ELSE Serialize(lastResponse.result, 0, 2)

\* C9 witness: a handler resolved with a string and the text is that string.
C9_Witness ==
    /\ lastResponse.op = "readResource"
    /\ lastResponse.ok
    /\ lastResponse.result = ValString
    /\ lastResponse.contents[1].text = <<"h", "\"", "i">>

\* C9 witness of the other branch: a handler resolved with an object.
C9_WitnessObject ==
    /\ lastResponse.op = "readResource"
    /\ lastResponse.ok
    /\ lastResponse.result = ValObject
    /\ lastResponse.contents[1].mimeType = "text/html"

\* C5: a call-tool whose name is not a key of the tool registry fails with
\* the unknown-tool error carrying exactly the requested name, and no tool
\* handler is invoked for it.
C5_UnknownTool ==
    /\ \A r \in InvokedCalls : r.name \in RegisteredNames
    /\ (lastResponse.op = "callTool" /\ lastResponse.name \notin RegisteredNames)
       => /\ ~lastResponse.ok
          /\ lastResponse.error =
                [translated |-> FALSE, kind |-> "Error",
                 text |-> "Unknown tool: ", name |-> lastResponse.name]
          /\ lastResponse.handler = ""
          /\ \A k \in 1..Len(lastResponse.trace) : lastResponse.trace[k] # "invoke"

\* C5 witness: tools are registered and a call of a name that is none of
\* theirs has been answered.
C5_Witness ==
    /\ Len(tools) = 2
    /\ lastResponse.op = "callTool"
    /\ lastResponse.name = "t9"
    /\ ~lastResponse.ok
    /\ lastResponse.error.name = "t9"

\* C7: list-tools returns exactly one entry per registered tool name, none
\* missing, none extra, none twice, and each entry consists of that tool's
\* name, description and inputSchema and of nothing else: neither the handler
\* nor the discovery metadata.
C7_ListToolsIsExactAndNarrow ==
    (lastResponse.op = "listTools") =>
        LET listed == lastResponse.tools
        IN  /\ Len(listed) = Cardinality(RegisteredNames)
            /\ {listed[i].name : i \in 1..Len(listed)} = RegisteredNames
            /\ \A i \in 1..Len(listed) :
                  /\ DOMAIN listed[i] = {"name", "description", "inputSchema"}
                  /\ listed[i].description =
                        LastRegisteredTool(listed[i].name).description
                  /\ listed[i].inputSchema =
                        LastRegisteredTool(listed[i].name).inputSchema

\* C7 witness: a listing of a registry of two tools.
C7_Witness ==
    /\ lastResponse.op = "listTools"
    /\ Len(lastResponse.tools) = 2
    /\ Len(tools) = 2

\* C8: a successful call-tool response holds exactly one content block, of
\* type 'text', whose text is the JSON serialization of the handler's result
\* with an indent of two spaces; parsing the text gives back a value equal to
\* the result, whether it is an object, an array, a string or a boolean.
C8_ToolContentRoundTrips ==
    (lastResponse.op = "callTool" /\ lastResponse.ok) =>
        /\ Len(lastResponse.content) = 1
        /\ DOMAIN lastResponse.content[1] = {"type", "text"}
        /\ lastResponse.content[1].type = "text"
        /\ lastResponse.content[1].text = Serialize(lastResponse.result, 0, 2)
        /\ JsonParse(lastResponse.content[1].text).ok
        /\ JsonParse(lastResponse.content[1].text).val = lastResponse.result

\* C8 witness: a handler resolved with {a: 1, b: [2, 3]}.
C8_Witness ==
    /\ lastResponse.op = "callTool"
    /\ lastResponse.ok
    /\ lastResponse.result = ValObject
    /\ JsonParse(lastResponse.content[1].text).val = ValObject

\* C8 witness for a string result: the text is the quoted, escaped string.
C8_WitnessString ==
    /\ lastResponse.op = "callTool"
    /\ lastResponse.ok
    /\ lastResponse.result = ValString
    /\ lastResponse.content[1].text = <<"\"", "h", "\\", "\"", "i", "\"">>

\* the tool and resource registries hold what the constructor registered
RegistriesIntact ==
    /\ Len(tools) = Cardinality(RegisteredNames)
    /\ \A i \in 1..Len(tools) :
          /\ tools[i].key \in RegisteredNames
          /\ tools[i].value = LastRegisteredTool(tools[i].key)
    /\ Len(resources) = Cardinality(RegisteredPatterns)
    /\ \A i \in 1..Len(resources) :
          /\ resources[i].key \in RegisteredPatterns
          /\ resources[i].value = LastRegisteredResource(resources[i].key)

\* C10: whatever failure a tool or resource handler raises, the caller gets
\* exactly one error, the one handleError produces for that failure, and the
\* failure is logged before it is translated; afterwards the server serves
\* calls and reads as it would have without the failure: it is still
\* serving, its registries are intact, and a request that arrived after the
\* failure is dispatched to the handler its name or URI selects.
C10_HandlerFailureIsTranslated ==
    /\ ("raised" \in DOMAIN lastResponse) =>
          /\ ~lastResponse.ok
          /\ lastResponse.error = HandleError(lastResponse.raised)
          /\ lastResponse.error.translated
          /\ \E k \in 1..(Len(lastResponse.trace) - 1) :
                /\ lastResponse.trace[k] = "error:failed"
                /\ lastResponse.trace[k + 1] = "handleError"
                /\ \A j \in 1..k : lastResponse.trace[j] # "handleError"
          /\ \A r \in inflight : r.id # lastResponse.id
    /\ (handlerFailures > 0) =>
          /\ pc = "serving"
          /\ RegistriesIntact
          /\ \A q \in InvokedCalls :
                q.handler = LastRegisteredTool(q.name).handler
          /\ \A q \in InvokedReads :
                q.handler = resources[FindMatch(resources, q.uri)].value.handler
          /\ (lastResponse.op \in {"callTool", "readResource"} /\ lastResponse.handler = "")
                => lastResponse.error.kind = "Error"

\* C10 witness: a handler has rejected, and a request that arrived after
\* that has been served successfully.
C10_Witness ==
    /\ handlerFailures = 1
    /\ lastResponse.op \in {"callTool", "readResource"}
    /\ lastResponse.ok
    /\ lastResponse.failuresBefore = 1

\* C10 witness of the failure itself: a rejected tool handler, answered with
\* the translated error.
C10_WitnessFailure ==
    /\ lastResponse.op = "callTool"
    /\ "raised" \in DOMAIN lastResponse
    /\ lastResponse.raised.kind = "notfound"
    /\ lastResponse.error.kind = "NotFound"

(***************************************************************************)
(* The error taxonomy, as the caller can tell its members apart.           *)
(***************************************************************************)
Taxonomy ==
    {"UnknownTool", "UnknownResource", "ValidationError", "NotFound",
     "Unauthorized", "UpstreamError"}

\* the member of the taxonomy an error object is: the two lookup errors are
\* told by their message, the others by the kind the translator gave them;
\* "raw" when it is none of them
ErrorClass(e) ==
    IF e.translated
    THEN IF e.kind \in {"ValidationError", "NotFound", "Unauthorized", "UpstreamError"}
         THEN e.kind ELSE "raw"
    ELSE IF e.kind = "Error" /\ e.text = "Unknown tool: " /\ "name" \in DOMAIN e
    THEN "UnknownTool"
    ELSE IF e.kind = "Error" /\ e.text = "Unknown resource: " /\ "uri" \in DOMAIN e
    THEN "UnknownResource"
    ELSE "raw"

\* the member of the taxonomy a handler's failure belongs to
ClassOfFailure(kind) ==
    CASE kind = "validation"   -> "ValidationError"
      [] kind = "notfound"     -> "NotFound"
      [] kind = "unauthorized" -> "Unauthorized"
      [] kind = "upstream"     -> "UpstreamError"

C11_WitnessUnknown ==
    /\ lastResponse.op = "callTool"
    /\ ~lastResponse.ok
    /\ lastResponse.handler = ""
    /\ ErrorClass(lastResponse.error) = "UnknownTool"

\* C12: getHealth reports 'healthy' if and only if the connectivity probe
\* resolved true, at least one tool is registered and at least one resource
\* is registered; a false probe gives 'unhealthy' whatever the counts; and
\* the report lists exactly the three checks bookstack_connection,
\* tools_loaded and resources_loaded, each with the verdict of its own check.
C12_HealthyIffAllThreeChecks ==
    (lastResponse.op = "getHealth" /\ lastResponse.ok) =>
        LET report == lastResponse.report
            names  == Cardinality(RegisteredNames)
            pats   == Cardinality(RegisteredPatterns)
        IN  /\ report.status \in {"healthy", "unhealthy"}
            /\ (report.status = "healthy") <=>
                  (lastResponse.probe /\ names > 0 /\ pats > 0)
            /\ Len(report.checks) = 3
            /\ [i \in 1..3 |-> report.checks[i].name] =
                  <<"bookstack_connection", "tools_loaded", "resources_loaded">>
            /\ report.checks[1].healthy = lastResponse.probe
            /\ report.checks[2].healthy = (names > 0)
            /\ report.checks[3].healthy = (pats > 0)

\* C12 witness: the probe resolved false on a server with tools and
\* resources, and the report says 'unhealthy'.
C12_Witness ==
    /\ lastResponse.op = "getHealth"
    /\ lastResponse.ok
    /\ ~lastResponse.probe
    /\ Len(tools) > 0
    /\ Len(resources) > 0
    /\ lastResponse.report.status = "unhealthy"

\* C12 witness of the other verdicts: all three checks pass and the report
\* says 'healthy'.
C12_WitnessHealthy ==
    /\ lastResponse.op = "getHealth"
    /\ lastResponse.ok
    /\ lastResponse.probe
    /\ Len(tools) > 0
    /\ Len(resources) > 0
    /\ lastResponse.report.status = "healthy"

\* C12 witness of an empty registry: the probe resolved true, no tool is
\* registered, and the report says 'unhealthy'.
C12_WitnessNoTools ==
    /\ lastResponse.op = "getHealth"
    /\ lastResponse.ok
    /\ lastResponse.probe
    /\ Len(tools) = 0
    /\ lastResponse.report.status = "unhealthy"

\* C13: getHealth never rejects: every call of it ends with a report, and
\* when the connectivity probe itself raised, the report counts the probe
\* as a false check and says 'unhealthy'.
C13_GetHealthNeverRejects ==
    (lastResponse.op = "getHealth") =>
        /\ lastResponse.ok
        /\ "report" \in DOMAIN lastResponse
        /\ ("probeRaised" \in DOMAIN lastResponse) =>
              /\ ~lastResponse.report.checks[1].healthy
              /\ lastResponse.report.status = "unhealthy"

\* C14: once the constructor has returned, no operation of the instance
\* changes the registries: every step taken by list-tools, call-tool,
\* list-resources, read-resource, getHealth or shutdown, whether it succeeds
\* or fails, leaves the keys, their order and their entries of both
\* registries as they were.
C14_RegistriesFrozenAfterConstruction ==
    [][(pc \in Constructed) => (tools' = tools /\ resources' = resources)]_vars

\* C14 witness: a handler has failed, the server has been shut down after
\* the last request, and both registries still hold what was registered.
C14_Witness ==
    /\ pc = "closed"
    /\ handlerFailures > 0
    /\ nextId = MaxReq
    /\ inflight = {}
    /\ MapKeys(tools) = <<"t1", "t2">>
    /\ MapKeys(resources) = <<Pat_bI, Str_b5>>
    /\ RegistriesIntact

\* what the caller of a completed call-tool or read-resource request got,
\* and the handler that was invoked for it
Outcome(q) ==
    IF ~q.ok THEN [handler |-> q.handler, error |-> q.error]
    ELSE IF q.op = "callTool" THEN [handler |-> q.handler, content |-> q.content]
    ELSE [handler |-> q.handler, contents |-> q.contents]

\* the outcome of the call-tool request q on a server that serves nothing
\* else, given how its handler settled
AloneCall(q) ==
    IF q.name \notin RegisteredNames
    THEN [handler |-> "",
          error |-> [translated |-> FALSE, kind |-> "Error",
                     text |-> "Unknown tool: ", name |-> q.name]]
    ELSE LET tool == LastRegisteredTool(q.name)
         IN  IF "raised" \in DOMAIN q
             THEN [handler |-> tool.handler, error |-> HandleError(q.raised)]
             ELSE [handler |-> tool.handler,
                   content |-> <<[type |-> "text", text |-> Serialize(q.result, 0, 2)]>>]

\* the outcome of the read-resource request q on a server that serves
\* nothing else, given how its handler settled
AloneRead(q) ==
    LET hits == {i \in 1..resIdx : PatternMatches(ResourceHistory[i].uri, q.uri)}
    IN  IF hits = {}
        THEN [handler |-> "",
              error |-> [translated |-> FALSE, kind |-> "Error",
                         text |-> "Unknown resource: ", uri |-> q.uri]]
        ELSE LET res == LastRegisteredResource(ResourceHistory[Min(hits)].uri)
             IN  IF "raised" \in DOMAIN q
                 THEN [handler |-> res.handler, error |-> HandleError(q.raised)]
                 ELSE [handler |-> res.handler,
                       contents |->
                          <<[uri |-> q.uri, mimeType |-> res.mimeType,
                             text |-> IF q.result.t = "str" THEN q.result.s
                                      ELSE Serialize(q.result, 0, 2)]>>]

\* C15: requests suspended at their handler's await interleave freely:
\* whatever steps other requests take in between, a call-tool or
\* read-resource request ends with the outcome it has on a server that
\* serves nothing else (the handler its name or URI selects, and the content
\* or error that follows from how that handler settled), and a step of one
\* request, a failing one included, leaves every other suspended request
\* suspended and as it was.
C15_InterleavingIsTransparent ==
    [][/\ \A r \in inflight :
              r \in inflight' \/ (lastResponse'.id = r.id /\ lastResponse'.op = r.op)
       /\ (lastResponse' # lastResponse /\ lastResponse'.op = "callTool")
             => Outcome(lastResponse') = AloneCall(lastResponse')
       /\ (lastResponse' # lastResponse /\ lastResponse'.op = "readResource")
             => Outcome(lastResponse') = AloneRead(lastResponse')]_vars

\* C15 witness: a request that was suspended when another request's handler
\* failed has completed successfully.
C15_Witness ==
    /\ lastResponse.op \in {"callTool", "readResource"}
    /\ lastResponse.ok
    /\ lastResponse.failuresBefore = 0
    /\ handlerFailures = 1
    /\ lastResponse.id = 1

\* C15 witness of the interleaving: a call and a read are suspended at the
\* same time.
C15_WitnessBothSuspended ==
    /\ \E r \in inflight : r.op = "callTool"
    /\ \E r \in inflight : r.op = "readResource"

\* how many times the trace of a request records an invocation of a handler
RECURSIVE Invocations(_)
Invocations(trace) ==
    IF trace = <<>> THEN 0
    ELSE (IF Head(trace) = "invoke" THEN 1 ELSE 0) + Invocations(Tail(trace))

\* does the registry hold a tool or resource for the request q
Matched(q) ==
    IF q.op = "callTool"
    THEN q.name \in RegisteredNames
    ELSE \E p \in RegisteredPatterns : PatternMatches(p, q.uri)

\* C17: the dispatcher does not retry: a call-tool or read-resource request
\* whose name or URI is matched has had its handler invoked exactly once,
\* while it is suspended and after it has completed, also when the handler
\* failed; a request that is not matched has had no handler invoked.
C17_HandlerInvokedOnce ==
    /\ \A r \in inflight :
          r.op \in {"callTool", "readResource"} =>
              Matched(r) /\ Invocations(r.trace) = 1
    /\ (lastResponse.op \in {"callTool", "readResource"}) =>
          Invocations(lastResponse.trace) = (IF Matched(lastResponse) THEN 1 ELSE 0)

\* C17 witness: a tool handler failed and the request ended after one
\* invocation.
C17_Witness ==
    /\ lastResponse.op = "callTool"
    /\ "raised" \in DOMAIN lastResponse
    /\ Invocations(lastResponse.trace) = 1

\* C17 witness of the unmatched case: a read of an unknown URI ended with no
\* invocation.
C17_WitnessUnmatched ==
    /\ lastResponse.op = "readResource"
    /\ ~Matched(lastResponse)
    /\ Invocations(lastResponse.trace) = 0

\* C20: a read-resource that matches a resource, by an exact or by a
\* templated pattern, invokes the matched handler with one argument, the
\* URI of the request as it was received: not the pattern, and no
\* placeholder values beside it.
C20_HandlerGetsRequestUri ==
    \A r \in InvokedReads :
        /\ Len(r.passedUri) = 1
        /\ r.passedUri[1] = r.uri

\* C20 witness: a read matched by the templated pattern /b/{i}/c/{j} has
\* invoked the handler with /b/5/c/9.
C20_Witness ==
    \E r \in InvokedReads :
        /\ resources[r.matched].key = Pat_bIcJ
        /\ r.uri = Str_b5c9
        /\ r.passedUri = <<Str_b5c9>>

\* C20 witness of an exact pattern: a read matched by /b/5.
C20_WitnessExact ==
    \E r \in InvokedReads :
        /\ resources[r.matched].key = Str_b5
        /\ r.passedUri = <<Str_b5>>

\* the number of tools the class comment announces
DocumentedToolCount == 47

\* C19: once setupTools has run, the tool registry holds exactly 47
\* entries.
C19_FortySevenTools ==
    (pc # "setupTools") => MapSize(tools) = DocumentedToolCount

\* the upstream configuration the headers of post p and the configuration
\* the process started with determine
ExpectedClientConfig(p) ==
    [baseUrl  |-> IF p.url.present /\ p.url.value # ""
                  THEN p.url.value ELSE BaseConfig.bookstack.baseUrl,
     apiToken |-> IF p.token.present /\ p.token.value # ""
                  THEN p.token.value ELSE BaseConfig.bookstack.apiToken,
     timeout  |-> BaseConfig.bookstack.timeout]

\* the posts whose server instance has been constructed
Served == {i \in 1..Len(posts) : posts[i].instance # 0}

\* C16: in HTTP mode every POST /message whose constructor returns has a
\* server instance of its own, constructed for it with registries of its
\* own: no two posts share an instance, and as many instances have been
\* constructed as posts are served. The base URL and the token its client
\* is configured with are those of its own headers, with the configuration
\* of the process standing in for a header that is absent or empty, whatever
\* the headers of the posts before it or suspended beside it; the
\* configuration of the process is never changed.
C16_FreshInstancePerPost ==
    /\ processConfig = BaseConfig
    /\ instances = Cardinality(Served)
    /\ \A i \in Served :
          /\ posts[i].clientConfig = ExpectedClientConfig(posts[i])
          /\ \A j \in Served : j # i => posts[j].instance # posts[i].instance
          /\ MapKeys(posts[i].tools) = <<"t1", "t2">>
          /\ MapKeys(posts[i].resources) = <<Pat_bI, Str_b5>>

\* C16 witness: a post with the headers of one tenant and a later post
\* without headers are suspended at the same time; the first is configured
\* with its headers, the second with the configuration of the process.
C16_Witness ==
    /\ Len(posts) = 2
    /\ posts[1].stage = "handling"
    /\ posts[2].stage = "handling"
    /\ posts[1].url = Header("url-a")
    /\ posts[1].token = Header("token-a")
    /\ posts[2].url = NoHeader
    /\ posts[2].token = NoHeader
    /\ posts[1].clientConfig.baseUrl = "url-a"
    /\ posts[1].clientConfig.apiToken = "token-a"
    /\ posts[2].clientConfig.baseUrl = "base-url"
    /\ posts[2].clientConfig.apiToken = "base-token"
    /\ posts[1].instance # posts[2].instance

\* C18 as stated: every post whose processing raised an error, in the
\* constructor, in connect or in the transport's handling, has been answered
\* with status 500 and the plain-text body.
C18_EveryErrorAnswered500 ==
    \A i \in 1..Len(posts) :
        (posts[i].raisedAt # "") =>
            /\ posts[i].res.status = 500
            /\ posts[i].res.body = "Internal Server Error"

\* C18 as amended: a post whose processing raised an error is answered
\* with status 500 and the plain-text body 'Internal Server Error' when no
\* response head had been written before the error, which is always so for
\* an error of the constructor or of connect; when the transport had already
\* written the response head, the response is left as the transport wrote
\* it and no 500 is sent.
C18_ErrorAnswered500UnlessHeadSent ==
    \A i \in 1..Len(posts) :
        (posts[i].raisedAt # "") =>
            /\ posts[i].stage = "done"
            /\ posts[i].res.headersSent
            /\ (posts[i].raisedAt \in {"constructor", "connect"})
                  => ~posts[i].sentBeforeCatch
            /\ IF posts[i].sentBeforeCatch
               THEN /\ posts[i].res.status # 500
                    /\ posts[i].res.body = "transport"
               ELSE /\ posts[i].res.status = 500
                    /\ posts[i].res.body = "Internal Server Error"

\* C18 witness: transport.handleRequest rejected before anything was
\* written, and the post was answered with 500.
C18_Witness ==
    \E i \in 1..Len(posts) :
        /\ posts[i].raisedAt = "handleRequest"
        /\ ~posts[i].sentBeforeCatch
        /\ posts[i].res.status = 500
        /\ posts[i].res.body = "Internal Server Error"

\* C18 witness of the other case: the transport had written the response
\* head when it rejected.
C18_WitnessHeadSent ==
    \E i \in 1..Len(posts) :
        /\ posts[i].raisedAt = "handleRequest"
        /\ posts[i].sentBeforeCatch
        /\ posts[i].res.status = 200

\* C21: call-tool hands the handler the arguments mapping of the request
\* as it is when the caller supplied one, and an empty mapping when the
\* caller supplied none: no handler is invoked with an absent arguments
\* value.
C21_ArgumentsDefaultToEmpty ==
    \A r \in InvokedCalls :
        /\ r.passedArgs # [t |-> "undefined"]
        /\ r.passedArgs.t = "obj"
        /\ r.passedArgs =
              (IF r.args = [t |-> "undefined"] THEN JObj(<<>>, <<>>) ELSE r.args)

\* C21 witness: a call without arguments has invoked its handler with the
\* empty mapping.
C21_Witness ==
    \E r \in InvokedCalls :
        /\ r.args = Undefined
        /\ r.passedArgs = JObj(<<>>, <<>>)

\* C21 witness of the other case: a call with arguments has invoked its
\* handler with them.
C21_WitnessGiven ==
    \E r \in InvokedCalls :
        /\ r.args = ArgsGiven
        /\ r.passedArgs = ArgsGiven

(***************************************************************************)
(* What a run of a catalog handler has done.                               *)
(***************************************************************************)
IsValidation(ev) == ev.e \in {"validateId", "validateParams"}

\* positions of the run's client calls
ClientCalls == {k \in 1..Len(run.events) : run.events[k].e = "client"}

\* positions of the run's validator calls
Validations == {k \in 1..Len(run.events) : IsValidation(run.events[k])}

UpdateToolNames ==
    {"bookstack_books_update", "bookstack_chapters_update", "bookstack_pages_update",
     "bookstack_shelves_update", "bookstack_users_update", "bookstack_roles_update",
     "bookstack_attachments_update", "bookstack_images_update"}

\* C22: in a tool handler every validateId and validateParams call has
\* completed before a method of the API client is invoked, and a handler in
\* which a validation failed makes no client call.
C22_ValidationBeforeClient ==
    /\ \A k \in ClientCalls : \A j \in Validations : j < k /\ run.events[j].ok
    /\ (\E j \in Validations : ~run.events[j].ok) =>
          /\ ClientCalls = {}
          /\ run.stage = "threw"

\* C22 witness: an update handler whose id was valid and whose parameters
\* the schema refused has thrown without a client call.
C22_Witness ==
    /\ run.stage = "threw"
    /\ Len(run.events) = 2
    /\ run.events[1].e = "validateId" /\ run.events[1].ok
    /\ run.events[2].e = "validateParams" /\ ~run.events[2].ok
    /\ ClientCalls = {}

\* C22 witness of the passing case: both validations succeeded and the
\* client call came third.
C22_WitnessCalled ==
    /\ Len(run.events) = 3
    /\ run.events[1].ok /\ run.events[2].ok
    /\ ClientCalls = {3}

\* C26: every argument a tool handler forwards to a method of the API
\* client is what validateId or validateParams returned earlier in that
\* handler.
C26_ForwardedValuesAreValidated ==
    \A k \in ClientCalls :
        \A a \in 1..Len(run.events[k].args) :
            \E j \in Validations :
                /\ j < k
                /\ run.events[j].ok
                /\ run.events[j].out = run.events[k].args[a]

\* C30: an update tool validates params.id with validateId, validates the
\* arguments without `id` with validateParams under its own schema, and
\* calls its update method of the client with exactly the validated id and
\* the validated remainder: `id` is not in the payload.
C30_UpdateSplitsIdFromPayload ==
    run.tool \in UpdateToolNames =>
        LET ev == run.events
            tool == CHOOSE t \in BuiltinTools : t.name = run.tool
            hasId == \E i \in 1..Len(run.params.keys) : run.params.keys[i] = K_id
            NotId(key) == key # K_id
        IN /\ Len(ev) >= 1
           /\ ev[1].e = "validateId"
           /\ IF hasId
              THEN \E i \in 1..Len(run.params.keys) :
                       run.params.keys[i] = K_id /\ ev[1].raw = run.params.vals[i]
              ELSE ev[1].raw = [t |-> "undefined"]
           /\ ~ev[1].ok => Len(ev) = 1 /\ run.stage = "threw"
           /\ ev[1].ok =>
                 /\ Len(ev) >= 2
                 /\ ev[1].out.t = "num" /\ ev[1].out.n > 0
                 /\ ev[2].e = "validateParams"
                 /\ ev[2].schema = tool.schema
                 /\ ev[2].raw.keys = SelectSeq(run.params.keys, NotId)
                 /\ Len(ev[2].raw.vals) = Len(ev[2].raw.keys)
                 /\ \A i \in 1..Len(ev[2].raw.keys) :
                        \E j \in 1..Len(run.params.keys) :
                            /\ run.params.keys[j] = ev[2].raw.keys[i]
                            /\ run.params.vals[j] = ev[2].raw.vals[i]
                 /\ ~ev[2].ok => Len(ev) = 2 /\ run.stage = "threw"
                 /\ ev[2].ok =>
                       /\ Len(ev) = 3
                       /\ ev[3].e = "client"
                       /\ ev[3].method = tool.method
                       /\ ev[3].args = <<ev[1].out, ev[2].out>>
                       /\ \A i \in 1..Len(ev[3].args[2].data.keys) :
                              ev[3].args[2].data.keys[i] # K_id

\* C30 witness: an update tool called with {name, id: "7"} has called its
\* client method with 7 and the validated {name}.
C30_Witness ==
    /\ run.tool \in UpdateToolNames
    /\ Len(run.events) = 3
    /\ run.params.keys = <<K_name, K_id>>
    /\ run.events[3].e = "client"
    /\ run.events[3].args[1] = JNum(7)
    /\ run.events[3].args[2].data = JObj(<<K_name>>, <<JStr(<<"n">>)>>)

\* the URI is the pattern with every placeholder replaced by one sequence of
\* one or more characters other than "/", every character outside the
\* placeholders standing for itself
LiteralStructureMatch(pattern, uri) ==
    LET parts == PatternParts(pattern, 1)
        n     == Len(parts)
        phs   == {k \in 1..n : parts[k].ph}
        room  == Len(uri) - n + 1
    IN  /\ room >= 1
        /\ \E len \in [phs -> 1..room] :
              /\ WidthBefore(parts, len, n + 1) = Len(uri)
              /\ \A k \in 1..n :
                    LET from == WidthBefore(parts, len, k) + 1
                    IN  IF parts[k].ph
                        THEN \A x \in from..(from + len[k] - 1) : uri[x] # "/"
                        ELSE parts[k].c = uri[from]

\* C23: a templated pattern matches a request URI only if the URI has the
\* literal structure of the pattern: every character of the pattern outside
\* its placeholders, "." included, is at the corresponding position of the
\* URI.
C23_LiteralsMatchThemselves ==
    \A q \in LatestRead :
        (q.matched # 0 /\ Includes(resources[q.matched].key, "{")) =>
            LiteralStructureMatch(resources[q.matched].key, q.uri)

\* request id is suspended and the promise of its handler has settled
ReadyToResume(id) ==
    /\ \E r \in inflight : r.id = id
    /\ \E s \in settled : s.id = id

\* request id has just been answered after its handler was invoked
Answered(id) ==
    /\ lastResponse.id = id
    /\ lastResponse.op \in {"callTool", "readResource"}
    /\ lastResponse.handler # ""

\* C24: every request whose own handler settles is eventually answered,
\* whatever other requests are suspended on handlers that never settle.
C24_SettledRequestIsAnswered ==
    \A id \in 1..MaxReq : ReadyToResume(id) ~> Answered(id)

\* C24 witness: a request has been answered while an earlier one is still
\* suspended on a handler that has not settled.
C24_Witness ==
    /\ lastResponse.op \in {"callTool", "readResource"}
    /\ lastResponse.handler # ""
    /\ \E r \in inflight :
          /\ r.id < lastResponse.id
          /\ \A s \in settled : s.id # r.id

\* C25: shutdown never throws or rejects: when closing the transport fails
\* the failure is logged and shutdown resolves all the same; and a shutdown
\* step leaves the suspended handler invocations as they are, neither
\* cancelling them nor waiting for them.
C25_ShutdownIsBestEffort ==
    /\ [](lastResponse.op = "shutdown" =>
             /\ lastResponse.ok
             /\ lastResponse.closeFailed =>
                   lastResponse.trace[Len(lastResponse.trace)]
                       = "error:Error during shutdown")
    /\ [][(pc \in {"serving", "closing"} /\ pc' # pc) => inflight' = inflight]_vars

\* C25 witness: close() failed and shutdown has resolved while a handler
\* invocation is still suspended.
C25_Witness ==
    /\ pc = "closed"
    /\ lastResponse.op = "shutdown"
    /\ lastResponse.closeFailed
    /\ lastResponse.ok
    /\ inflight # {}

\* C25 witness that a suspended invocation is not cancelled: it has
\* completed after shutdown did.
C25_WitnessCompletesAfterClose ==
    /\ pc = "closed"
    /\ lastResponse.op = "callTool"
    /\ lastResponse.ok

RECURSIVE FirstOccurrences(_)
FirstOccurrences(h) ==
    IF h = <<>> THEN <<>>
    ELSE LET front == FirstOccurrences(SubSeq(h, 1, Len(h) - 1))
             uri   == h[Len(h)].uri
         IN  IF \E i \in 1..Len(front) : front[i] = uri
             THEN front
             ELSE Append(front, uri)

\* C28: registering a resource under a pattern that is already registered
\* replaces the stored entry and leaves the pattern at the place of its
\* first registration: the listing and the scan of read-resource go through
\* the patterns in the order of their first registrations, and give the
\* entry registered last under each.
C28_ReregistrationKeepsPosition ==
    LET order == FirstOccurrences(ResourceHistory)
    IN  /\ MapKeys(resources) = order
        /\ \A i \in 1..Len(resources) :
              resources[i].value = LastRegisteredResource(order[i])
        /\ lastResponse.op = "listResources" =>
              /\ Len(lastResponse.resources) = Len(order)
              /\ \A i \in 1..Len(order) :
                    /\ lastResponse.resources[i].uri = order[i]
                    /\ lastResponse.resources[i].name
                          = LastRegisteredResource(order[i]).name
        /\ \A q \in LatestRead :
              q.matched # 0 =>
                  /\ PatternMatches(order[q.matched], q.uri)
                  /\ \A i \in 1..(q.matched - 1) : ~PatternMatches(order[i], q.uri)
                  /\ q.handler = LastRegisteredResource(order[q.matched]).handler

\* C28 witness: /b/{i}, /b/5 and /b/{i} again have been registered, and a
\* read of /b/5 has gone to the second resource of /b/{i}, still scanned
\* before /b/5.
C28_Witness ==
    /\ resFeed = <<ResBookById, ResBookFive, ResBookById2>>
    /\ MapKeys(resources) = <<Pat_bI, Str_b5>>
    /\ \E q \in LatestRead :
          /\ q.uri = Str_b5
          /\ q.matched = 1
          /\ q.handler = ResBookById2.handler

\* C29, as amended: constructing a server with overrides leaves the
\* configuration of the process unchanged, so a server constructed without
\* overrides afterwards uses the original base URL and token; a server
\* constructed for a post uses the value of the header when the header is
\* present and not empty, and the base value otherwise; the timeout is
\* always that of the base configuration.
C29_OverridesLeaveBaseUnchanged ==
    /\ processConfig = BaseConfig
    /\ \A i \in Served :
          /\ posts[i].clientConfig.timeout = BaseConfig.bookstack.timeout
          /\ posts[i].stage = "plain" =>
                /\ posts[i].clientConfig.baseUrl = BaseConfig.bookstack.baseUrl
                /\ posts[i].clientConfig.apiToken = BaseConfig.bookstack.apiToken
          /\ posts[i].stage # "plain" =>
                /\ posts[i].clientConfig.baseUrl =
                      (IF posts[i].url.present /\ posts[i].url.value # ""
                       THEN posts[i].url.value ELSE BaseConfig.bookstack.baseUrl)
                /\ posts[i].clientConfig.apiToken =
                      (IF posts[i].token.present /\ posts[i].token.value # ""
                       THEN posts[i].token.value ELSE BaseConfig.bookstack.apiToken)

\* C29 as stated: the same, with the value of the header used whenever the
\* header is present.
C29_OverrideUsesHeaderWhenPresent ==
    /\ processConfig = BaseConfig
    /\ \A i \in Served :
          /\ posts[i].clientConfig.timeout = BaseConfig.bookstack.timeout
          /\ posts[i].stage = "plain" =>
                /\ posts[i].clientConfig.baseUrl = BaseConfig.bookstack.baseUrl
                /\ posts[i].clientConfig.apiToken = BaseConfig.bookstack.apiToken
          /\ posts[i].stage # "plain" =>
                /\ posts[i].clientConfig.baseUrl =
                      (IF posts[i].url.present
                       THEN posts[i].url.value ELSE BaseConfig.bookstack.baseUrl)
                /\ posts[i].clientConfig.apiToken =
                      (IF posts[i].token.present
                       THEN posts[i].token.value ELSE BaseConfig.bookstack.apiToken)

\* C29 witness: a server was constructed for a post with a URL header and an
\* empty token header, then one without overrides: the first has the URL of
\* its header and the base token, the second the base URL and token.
C29_Witness ==
    /\ Len(posts) = 2
    /\ posts[1].url = Header("url-a")
    /\ posts[1].token = Header("")
    /\ posts[1].clientConfig.baseUrl = "url-a"
    /\ posts[1].clientConfig.apiToken = "base-token"
    /\ posts[2].stage = "plain"
    /\ posts[2].clientConfig = BaseConfig.bookstack


====
